---- MODULE Spec2Model ----
(***************************************************************************)
(* Import pipeline of local-ledger: rule-based categorisation, duplicate   *)
(* reconciliation, the merge-resolution flow of the import wizard and the  *)
(* ledger reducer.                                                         *)
(*                                                                         *)
(* Modelling conventions                                                   *)
(*  - a string is a sequence of one-character strings;                     *)
(*  - an amount is an integer number of thousandths of the currency unit;  *)
(*  - a date is an integer number of hours since an epoch (the program     *)
(*    stores ISO instants; every date it creates is a local midnight);     *)
(*  - Null stands for JavaScript null / undefined;                         *)
(*  - a behaviour of Spec follows one file through the import wizard,      *)
(*    from any ledger: Import is clicked for one file, the wizard may be   *)
(*    opened, closed and filled in any number of times around it.          *)
(***************************************************************************)
EXTENDS Integers, Sequences, FiniteSets, TLC

VARIABLES
    transactions,          \* state.transactions (the ledger), a sequence
    rules,                 \* state.rules, the ordered rule list
    categories,            \* state.categories (ids), a sequence
    wizardOpen,            \* the `open` prop of ImportWizard (importOpen of Layout)
    file,                  \* useState file: TRUE when a CSV file is selected
    selectedAccountId,     \* useState selectedAccountId
    isProcessing,          \* useState isProcessing
    step,                  \* useState step
    mergeDialogOpen,       \* useState mergeDialogOpen
    currentMerge,          \* useState currentMerge (a PotentialDuplicate or Null)
    pendingDuplicates,     \* useState pendingDuplicates
    processedIndices,      \* useState processedIndices
    importedTransactions,  \* useState importedTransactions
    currentAccountId,      \* useState currentAccountId
    importTask,            \* suspended handleImport (awaiting file.text / parseCSV) or Null
    timers,                \* pending setTimeout callbacks of processNextDuplicate (FIFO)
    clock,                 \* Date.now(), advanced at every use
    call,                  \* arguments and result of a pure function under test
    hist                   \* history of the current / last merge-resolution flow

vars == <<transactions, rules, categories, wizardOpen, file, selectedAccountId,
          isProcessing, step, mergeDialogOpen, currentMerge, pendingDuplicates,
          processedIndices, importedTransactions, currentAccountId, importTask,
          timers, clock, call, hist>>

Null == "null"
\* null where the value is otherwise a record
Nil == [nil |-> TRUE]

(***************************************************************************)
(* Bounds of the model                                                     *)
(***************************************************************************)
MaxLedger == 2          \* length of the ledger drawn in Init
MaxRows == 2            \* rows of one imported CSV file
MaxRules == 1           \* length of the rule list drawn in Init
MaxDecisions == 3       \* user decisions within one merge flow
MaxClock == 1           \* runs of processRemainingTransactions (Date.now() reads)
MaxMatchRules == 2      \* length of the rule list given to matchCategory

(***************************************************************************)
(* Strings                                                                 *)
(***************************************************************************)
LowerChar(c) ==
    CASE c = "A" -> "a" [] c = "B" -> "b" [] c = "C" -> "c" [] c = "D" -> "d"
      [] c = "E" -> "e" [] c = "F" -> "f" [] c = "G" -> "g" [] c = "H" -> "h"
      [] c = "I" -> "i" [] c = "J" -> "j" [] c = "K" -> "k" [] c = "L" -> "l"
      [] c = "M" -> "m" [] c = "N" -> "n" [] c = "O" -> "o" [] c = "P" -> "p"
      [] c = "Q" -> "q" [] c = "R" -> "r" [] c = "S" -> "s" [] c = "T" -> "t"
      [] c = "U" -> "u" [] c = "V" -> "v" [] c = "W" -> "w" [] c = "X" -> "x"
      [] c = "Y" -> "y" [] c = "Z" -> "z" [] OTHER -> c

\* String.prototype.toLowerCase
ToLowerCase(s) == [i \in 1..Len(s) |-> LowerChar(s[i])]

\* String.prototype.includes: p occurs in s as a contiguous substring
Includes(s, p) ==
    \E k \in 0..(Len(s) - Len(p)) : \A j \in 1..Len(p) : s[k + j] = p[j]

(***************************************************************************)
(* Regular expressions.  The patterns of the model are literal characters, *)
(* the wildcard "." and the opening parenthesis "(", which, never closed,  *)
(* makes `new RegExp` throw a SyntaxError.                                 *)
(***************************************************************************)
RegExpValid(pattern) == \A j \in 1..Len(pattern) : pattern[j] # "("

\* RegExp.prototype.test: an unanchored search; ignoreCase is the `i` flag
RegExpTest(pattern, ignoreCase, s) ==
    \E k \in 0..(Len(s) - Len(pattern)) :
        \A j \in 1..Len(pattern) :
            \/ pattern[j] = "."
            \/ IF ignoreCase THEN LowerChar(s[k + j]) = LowerChar(pattern[j])
                             ELSE s[k + j] = pattern[j]

(***************************************************************************)
(* categoryMatcher.ts                                                      *)
(***************************************************************************)
\* the body of the for loop of matchCategory for one rule: TRUE when the rule
\* returns its category, FALSE when the loop goes on to the next rule
RuleMatches(rule, description) ==
    IF rule.matchType = "contains"
    THEN IF rule.caseSensitive
         THEN Includes(description, rule.pattern)
         ELSE Includes(ToLowerCase(description), ToLowerCase(rule.pattern))
    ELSE IF rule.matchType = "regex"
    THEN IF RegExpValid(rule.pattern)
         THEN RegExpTest(rule.pattern, ~rule.caseSensitive, description)
         ELSE FALSE   \* catch: log and continue
    ELSE FALSE

\* rules.filter(r => r.targetType === type)
RelevantRules(rs, type) == SelectSeq(rs, LAMBDA r : r.targetType = type)

RECURSIVE FirstMatchFrom(_, _, _)
FirstMatchFrom(rs, k, description) ==
    IF k > Len(rs) THEN Null
    ELSE IF RuleMatches(rs[k], description) THEN rs[k].categoryId
    ELSE FirstMatchFrom(rs, k + 1, description)

\* a matchCategory whose loop ends at the first rule with an invalid pattern
matchCategoryStopsAtInvalidRegex(description, rs, type) ==
    LET rel == RelevantRules(rs, type)
        bad == { k \in 1..Len(rel) :
                    rel[k].matchType = "regex" /\ ~RegExpValid(rel[k].pattern) }
        cut == IF bad = {} THEN rel
               ELSE SubSeq(rel, 1, (CHOOSE k \in bad : \A j \in bad : k <= j) - 1)
    IN  FirstMatchFrom(cut, 1, description)

matchCategory(description, rs, type) ==
    FirstMatchFrom(RelevantRules(rs, type), 1, description)

autoCategorizeTransaction(transaction, rs) ==
    matchCategory(transaction.description, rs, transaction.type)

KwTransfer == <<"t","r","a","n","s","f","e","r">>
KwXfer == <<"x","f","e","r">>
KwPaymentSent == <<"p","a","y","m","e","n","t"," ","s","e","n","t">>
KwPaymentReceived ==
    <<"p","a","y","m","e","n","t"," ","r","e","c","e","i","v","e","d">>

\* an inferTransactionType that looks for the keywords without lower-casing
inferTransactionTypeCaseSensitive(amount, description) ==
    IF amount > 0
    THEN IF \E kw \in {KwTransfer, KwXfer, KwPaymentSent} : Includes(description, kw)
         THEN "TRANSFER" ELSE "INCOME"
    ELSE IF \E kw \in {KwTransfer, KwXfer, KwPaymentReceived} : Includes(description, kw)
         THEN "TRANSFER" ELSE "EXPENSE"

inferTransactionType(amount, description) ==
    IF amount > 0
    THEN IF \E kw \in {KwTransfer, KwXfer, KwPaymentSent} :
                Includes(ToLowerCase(description), kw)
         THEN "TRANSFER" ELSE "INCOME"
    ELSE IF \E kw \in {KwTransfer, KwXfer, KwPaymentReceived} :
                Includes(ToLowerCase(description), kw)
         THEN "TRANSFER" ELSE "EXPENSE"

(***************************************************************************)
(* csvParser.ts: duplicate reconciliation                                  *)
(***************************************************************************)
HoursPerDay == 24
AmountTolerance == 10       \* 0.01 in thousandths

Abs(x) == IF x < 0 THEN -x ELSE x

\* date-fns differenceInDays: the number of full days between two instants,
\* truncated towards zero
differenceInDays(dateLeft, dateRight) ==
    IF dateLeft >= dateRight
    THEN (dateLeft - dateRight) \div HoursPerDay
    ELSE -((dateRight - dateLeft) \div HoursPerDay)

\* the match criteria with the amount test written <= instead of <
IsDuplicateOfInclusive(existingTxn, newTxn, accountId) ==
    LET sameAccount == existingTxn.accountId = accountId
        sameAmount == Abs(existingTxn.amount - newTxn.amount) <= AmountTolerance
    IN  /\ sameAccount
        /\ sameAmount
        /\ Abs(differenceInDays(newTxn.date, existingTxn.date)) <= 1

\* the match criteria of the inner loop of findPotentialDuplicates
IsDuplicateOf(existingTxn, newTxn, accountId) ==
    LET sameAccount == existingTxn.accountId = accountId
        sameAmount == Abs(existingTxn.amount - newTxn.amount) < AmountTolerance
    IN  /\ sameAccount
        /\ sameAmount
        /\ Abs(differenceInDays(newTxn.date, existingTxn.date)) <= 1

\* inner loop: index of the existing transaction at which the loop breaks,
\* 0 when it runs to the end
RECURSIVE ScanExisting(_, _, _, _)
ScanExisting(existingTransactions, k, newTxn, accountId) ==
    IF k > Len(existingTransactions) THEN 0
    ELSE IF IsDuplicateOf(existingTransactions[k], newTxn, accountId) THEN k
    ELSE ScanExisting(existingTransactions, k + 1, newTxn, accountId)

\* outer loop, from the new transaction with (0-based) index i on
RECURSIVE ScanNew(_, _, _, _)
ScanNew(existingTransactions, newTransactions, accountId, i) ==
    IF i >= Len(newTransactions) THEN << >>
    ELSE LET newTxn == newTransactions[i + 1]
             k == ScanExisting(existingTransactions, 1, newTxn, accountId)
             rest == ScanNew(existingTransactions, newTransactions, accountId, i + 1)
         IN  IF k = 0 THEN rest
             ELSE <<[existingTransaction |-> existingTransactions[k],
                     newTransaction |-> newTxn,
                     newTransactionIndex |-> i]>> \o rest

findPotentialDuplicates(existingTransactions, newTransactions, accountId) ==
    ScanNew(existingTransactions, newTransactions, accountId, 0)

(***************************************************************************)
(* csvParser.ts: orphaned transfers.  dateDiffDays is the difference in    *)
(* milliseconds over the milliseconds of a day; on dates in hours it       *)
(* exceeds dateToleranceDays when the difference exceeds that many times   *)
(* HoursPerDay.                                                            *)
(***************************************************************************)
\* the callback of transactions.some
OrphanMatchAnyAccount(transfer, other, dateToleranceDays, amountTolerance) ==
    /\ other.type = "TRANSFER"
    /\ Abs(other.amount + transfer.amount) < amountTolerance
    /\ ~(Abs(transfer.date - other.date) > dateToleranceDays * HoursPerDay)

OrphanMatch(transfer, other, dateToleranceDays, amountTolerance) ==
    /\ other.type = "TRANSFER"
    /\ other.accountId # transfer.accountId
    /\ Abs(other.amount + transfer.amount) < amountTolerance
    /\ ~(Abs(transfer.date - other.date) > dateToleranceDays * HoursPerDay)

detectOrphanTransfers(txns, dateToleranceDays, amountTolerance) ==
    LET IsTransfer(t) == t.type = "TRANSFER"
        transferTransactions == SelectSeq(txns, IsTransfer)
        HasNoMatch(transfer) ==
            ~\E k \in DOMAIN txns :
                OrphanMatch(transfer, txns[k], dateToleranceDays, amountTolerance)
        orphaned == SelectSeq(transferTransactions, HasNoMatch)
    IN  [k \in 1..Len(orphaned) |-> orphaned[k].id]

(***************************************************************************)
(* FinanceContext.tsx: the ledger reducer                                  *)
(***************************************************************************)
\* ADD_TRANSACTIONS
AddTransactions(txns, newTransactions) == txns \o newTransactions

\* MERGE_TRANSACTION that rebuilds the entry and loses the notes
MergeTransactionDropsNotes(txns, id, csvData) ==
    [k \in 1..Len(txns) |->
        IF txns[k].id = id
        THEN [txns[k] EXCEPT !.date = csvData.date,
                             !.description = csvData.description,
                             !.notes = Null]
        ELSE txns[k]]

\* MERGE_TRANSACTION
MergeTransaction(txns, id, csvData) ==
    [k \in 1..Len(txns) |->
        IF txns[k].id = id
        THEN [txns[k] EXCEPT !.date = csvData.date,
                             !.description = csvData.description]
        ELSE txns[k]]

\* MERGE_TRANSACTION of the reducer variant with a designated Refunds category
MergeTransactionRefund(txns, cats, id, csvData) ==
    [k \in 1..Len(txns) |->
        IF txns[k].id = id
        THEN LET isRefundCategory ==
                     /\ \E c \in 1..Len(cats) : cats[c] = txns[k].categoryId
                     /\ txns[k].categoryId = "cat-refund"
             IN  [txns[k] EXCEPT !.date = csvData.date,
                                 !.description = csvData.description,
                                 !.type = IF isRefundCategory THEN "EXPENSE" ELSE @]
        ELSE txns[k]]

\* DELETE_TRANSACTION
DeleteTransaction(txns, id) == SelectSeq(txns, LAMBDA t : t.id # id)

\* DELETE_CATEGORY on the state [transactions, categories, rules]; a category
\* is its id
DeleteCategory(state, id) ==
    [state EXCEPT !.categories = SelectSeq(@, LAMBDA c : c # id),
                  !.rules = SelectSeq(@, LAMBDA r : r.categoryId # id)]

\* REORDER_RULES: ruleMap keeps, for an id, the last rule carrying it
ReorderRules(rs, ruleIds) ==
    LET Has(id) == \E k \in DOMAIN rs : rs[k].id = id
        ruleMap(id) ==
            rs[CHOOSE k \in DOMAIN rs :
                   rs[k].id = id /\ \A j \in DOMAIN rs : rs[j].id = id => j <= k]
        known == SelectSeq(ruleIds, Has)
        reorderedRules == [k \in 1..Len(known) |-> ruleMap(known[k])]
        Unnamed(r) == ~\E k \in DOMAIN ruleIds : ruleIds[k] = r.id
        remainingRules == SelectSeq(rs, Unnamed)
    IN  reorderedRules \o remainingRules

(***************************************************************************)
(* Values of the model                                                     *)
(***************************************************************************)
StrShop == <<"S","h","o","p">>
StrShopUpper == <<"S","H","O","P">>
StrXfer == <<"x","f","e","r">>
StrPay == <<"P","a","y">>

Txn(k, d, desc, amt, acc, ty, cat, nt, manual) ==
    [id |-> <<0, k>>, date |-> d, description |-> desc, amount |-> amt,
     currency |-> IF manual THEN "USD" ELSE "AUD", accountId |-> acc, type |-> ty,
     categoryId |-> cat, isManualEntry |-> manual, notes |-> nt,
     originalData |-> IF manual THEN Null ELSE "row"]

\* transactions the ledger may hold before the first import of a run
LedgerPool ==
    { Txn(1, 24, StrShop, -45600, "acc-A", "EXPENSE", "cat-food", "note", FALSE),
      Txn(2, 48, StrXfer, -45595, "acc-A", "TRANSFER", Null, Null, TRUE),
      Txn(3, 24, StrPay, -45600, "acc-B", "INCOME", "cat-refund", Null, FALSE) }

Row(d, desc, amt) == [date |-> d, description |-> desc, amount |-> amt, rawData |-> "row"]

\* rows parseCSV may emit
RowPool ==
    { Row(48, StrShopUpper, -45600),
      Row(96, StrPay, 10000) }

Rule(k, mt, pat, cat, target, cs) ==
    [id |-> k, matchType |-> mt, pattern |-> pat, categoryId |-> cat,
     targetType |-> target, caseSensitive |-> cs]

\* rules the user may have saved on the Categories page
RulePool ==
    { Rule(1, "contains", <<"s","h","o">>, "cat-food", "EXPENSE", FALSE),
      Rule(2, "contains", <<"S","H","O","P">>, "cat-misc", "ALL", TRUE) }

\* sequences of length at most n over the set S
SeqsUpTo(S, n) == UNION { [1..m -> S] : m \in 0..n }

\* those without repetition
SeqsNoRep(S, n) ==
    { q \in SeqsUpTo(S, n) : \A a, b \in DOMAIN q : a # b => q[a] # q[b] }

AccountIds == {"acc-A", "acc-B"}
CategoryIds == <<"cat-food", "cat-misc", "cat-refund">>

NoCall == [fn |-> "none"]
NoHist ==
    [started |-> FALSE, decided |-> {}, repeated |-> FALSE,
     keep |-> {}, add |-> {}, dismissed |-> {}, nDecisions |-> 0,
     done |-> Nil, before |-> << >>]

(***************************************************************************)
(* csvParser.ts: dates.  A parsed date is a record [year, month, day]      *)
(* (the local midnight that date-fns builds); Nil is JavaScript null.       *)
(* date-fns `parse` reads the format token by token, each numeric token    *)
(* taking the longest prefix its pattern accepts, each other character     *)
(* having to be found literally; what remains may only be white space, and *)
(* year, month and day are then validated against the calendar.            *)
(***************************************************************************)
Digits == <<"0","1","2","3","4","5","6","7","8","9">>

IsDigit(c) == \E d \in 1..10 : Digits[d] = c

DigitVal(c) == (CHOOSE d \in 1..10 : Digits[d] = c) - 1

\* the character of s at position p, "" beyond the end
CharAt(s, p) == IF p >= 1 /\ p <= Len(s) THEN s[p] ELSE ""

\* number of digits of s from position p on, at most n
DigitsAt(s, p, n) ==
    LET K == { k \in 0..n : \A j \in 0..(k - 1) : IsDigit(CharAt(s, p + j)) }
    IN  CHOOSE k \in K : \A j \in K : j <= k

\* the value of the k digits of s that start at position p
RECURSIVE NumAt(_, _, _)
NumAt(s, p, k) ==
    IF k = 0 THEN 0 ELSE NumAt(s, p, k - 1) * 10 + DigitVal(s[p + k - 1])

\* the formats, as token sequences
DATE_FORMATS ==
    << <<"dd", "/", "MM", "/", "yyyy">>,
       <<"MM", "/", "dd", "/", "yyyy">>,
       <<"yyyy", "-", "MM", "-", "dd">>,
       <<"dd", "-", "MM", "-", "yyyy">>,
       <<"MM", "-", "dd", "-", "yyyy">>,
       <<"d", "/", "M", "/", "yyyy">>,
       <<"M", "/", "d", "/", "yyyy">> >>

\* number of characters a numeric token takes at position p of s, 0 when its
\* pattern does not match:  dd, MM: /^\d{1,2}/   yyyy: /^\d{1,4}/
\* d: /^(3[0-1]|[0-2]?\d)/   M: /^(1[0-2]|0?\d)/
TokenLength(token, s, p) ==
    LET c1 == CharAt(s, p)
        c2 == CharAt(s, p + 1)
    IN  CASE token \in {"dd", "MM"} -> DigitsAt(s, p, 2)
          [] token = "yyyy" -> DigitsAt(s, p, 4)
          [] token = "d" ->
                IF c1 = "3" /\ c2 \in {"0", "1"} THEN 2
                ELSE IF c1 \in {"0", "1", "2"} /\ IsDigit(c2) THEN 2
                ELSE IF IsDigit(c1) THEN 1 ELSE 0
          [] token = "M" ->
                IF c1 = "1" /\ c2 \in {"0", "1", "2"} THEN 2
                ELSE IF c1 = "0" /\ IsDigit(c2) THEN 2
                ELSE IF IsDigit(c1) THEN 1 ELSE 0

IsNumericToken(token) == token \in {"dd", "MM", "yyyy", "d", "M"}

\* the field a numeric token sets
TokenField(token) ==
    CASE token \in {"dd", "d"} -> "day"
      [] token \in {"MM", "M"} -> "month"
      [] token = "yyyy" -> "year"

\* the tokens of format from the i-th on, read from position p of s into the
\* fields acc: the fields and the position reached, Nil when a token fails
RECURSIVE ParseTokens(_, _, _, _, _)
ParseTokens(s, format, i, p, acc) ==
    IF i > Len(format) THEN [fields |-> acc, rest |-> p]
    ELSE IF IsNumericToken(format[i])
    THEN LET n == TokenLength(format[i], s, p)
         IN  IF n = 0 THEN Nil
             ELSE ParseTokens(s, format, i + 1, p + n,
                      [acc EXCEPT ![TokenField(format[i])] = NumAt(s, p, n)])
    ELSE IF CharAt(s, p) = format[i]
         THEN ParseTokens(s, format, i + 1, p + 1, acc)
         ELSE Nil

IsLeapYear(year) == (year % 400 = 0) \/ (year % 4 = 0 /\ year % 100 # 0)

DaysInMonth(year, month) ==
    CASE month \in {1, 3, 5, 7, 8, 10, 12} -> 31
      [] month \in {4, 6, 9, 11} -> 30
      [] month = 2 -> IF IsLeapYear(year) THEN 29 ELSE 28

\* the validation of the parsed year, month and day, in that order
ValidFields(f) ==
    /\ f.year > 0
    /\ f.month >= 1 /\ f.month <= 12
    /\ f.day >= 1 /\ f.day <= DaysInMonth(f.year, f.month)

\* parse(dateStr, format, new Date()): the date, Nil for an Invalid Date
DateFnsParse(dateStr, format) ==
    LET r == ParseTokens(dateStr, format, 1, 1, [year |-> 0, month |-> 0, day |-> 0])
    IN  IF r = Nil THEN Nil
        ELSE IF \E q \in r.rest..Len(dateStr) : dateStr[q] # " " THEN Nil
        ELSE IF ~ValidFields(r.fields) THEN Nil
        ELSE r.fields

\* the for loop of parseDate from the k-th format on
RECURSIVE ParseDateFrom(_, _)
ParseDateFrom(dateStr, k) ==
    IF k > Len(DATE_FORMATS) THEN Nil
    ELSE LET parsed == DateFnsParse(dateStr, DATE_FORMATS[k])
         IN  IF parsed # Nil THEN parsed ELSE ParseDateFrom(dateStr, k + 1)

\* a parseDate that tries the month-first format of each pair before the
\* day-first one
parseDateMonthFirst(dateStr) ==
    LET order == <<2, 1, 3, 5, 4, 7, 6>>
        OK == { k \in 1..Len(order) : DateFnsParse(dateStr, DATE_FORMATS[order[k]]) # Nil }
    IN  IF OK = {} THEN Nil
        ELSE DateFnsParse(dateStr, DATE_FORMATS[order[CHOOSE k \in OK : \A j \in OK : k <= j]])

parseDate(dateStr) == ParseDateFrom(dateStr, 1)

(***************************************************************************)
(* csvParser.ts: amounts and rows.  A cell or a column name is a string    *)
(* (a sequence of characters); NullStr stands for null where a string is   *)
(* expected.  parseAmount yields integer thousandths: the strings of the   *)
(* model have at most three decimals, further ones are cut.                *)
(***************************************************************************)
NullStr == <<Null>>

\* value.replace(/[^0-9.-]/g, '')
KeepNumeric(value) == SelectSeq(value, LAMBDA c : IsDigit(c) \/ c = "." \/ c = "-")

\* the first three decimals that start at position q of str, k of them present
Thousandths(str, q, k) ==
    CASE k = 0 -> 0
      [] k = 1 -> NumAt(str, q, 1) * 100
      [] k = 2 -> NumAt(str, q, 2) * 10
      [] OTHER -> NumAt(str, q, 3)

\* parseFloat on a string of digits, "." and "-": the longest prefix that is a
\* decimal literal, NaN when there is none
ParseFloat(str) ==
    LET neg == CharAt(str, 1) = "-"
        p == IF neg THEN 2 ELSE 1
        k1 == DigitsAt(str, p, Len(str))
        k2 == IF CharAt(str, p + k1) = "." THEN DigitsAt(str, p + k1 + 1, Len(str)) ELSE 0
        magnitude == NumAt(str, p, k1) * 1000 + Thousandths(str, p + k1 + 1, k2)
    IN  IF k1 = 0 /\ k2 = 0 THEN [nan |-> TRUE]
        ELSE [nan |-> FALSE, value |-> IF neg THEN -magnitude ELSE magnitude]

\* parseAmount whose cleaning also removes the minus sign
parseAmountUnsigned(value) ==
    LET f == ParseFloat(SelectSeq(value, LAMBDA c : IsDigit(c) \/ c = "."))
    IN  IF f.nan THEN 0 ELSE f.value

\* parseFloat(cleaned) || 0
parseAmount(value) ==
    LET f == ParseFloat(KeepNumeric(value))
    IN  IF f.nan THEN 0 ELSE f.value

\* String.prototype.trim (white space of the model: the space)
Trim(str) ==
    LET N == { q \in 1..Len(str) : str[q] # " " }
    IN  IF N = {} THEN << >>
        ELSE SubSeq(str, CHOOSE a \in N : \A b \in N : a <= b,
                         CHOOSE a \in N : \A b \in N : b <= a)

\* /^\d+$/.test(columnName)
IsIndex(columnName) ==
    /\ columnName # NullStr
    /\ Len(columnName) > 0
    /\ \A q \in 1..Len(columnName) : IsDigit(columnName[q])

\* a falsy string: null or ''
Falsy(str) == str = NullStr \/ str = << >>

\* getValue of parseCSV; with indices the row is an array (0-based in the code),
\* otherwise an object keyed by header
getValue(row, columnName, isUsingIndices) ==
    IF Falsy(columnName) THEN NullStr
    ELSE IF isUsingIndices
    THEN LET k == DigitsAt(columnName, 1, Len(columnName))
             index == IF k > 0 THEN NumAt(columnName, 1, k) ELSE -1   \* parseInt
         IN  IF index + 1 \in DOMAIN row /\ ~Falsy(row[index + 1])
             THEN row[index + 1] ELSE NullStr
    ELSE IF columnName \in DOMAIN row /\ ~Falsy(row[columnName])
         THEN row[columnName] ELSE NullStr

StrUnknown == <<"U","n","k","n","o","w","n">>
StrZero == <<"0">>

\* the body of the row loop of parseCSV: the sequence of the ImportedTransaction
\* pushed for the row, empty when the row is skipped
ParseRow(row, columnMapping, isUsingIndices) ==
    LET dateStr == getValue(row, columnMapping.dateColumn, isUsingIndices)
        date == parseDate(dateStr)
        rawDescription == getValue(row, columnMapping.descriptionColumn, isUsingIndices)
        description == IF Falsy(rawDescription) THEN StrUnknown ELSE rawDescription
        amountStr == getValue(row, columnMapping.amountColumn, isUsingIndices)
        rawDebit == getValue(row, columnMapping.debitColumn, isUsingIndices)
        rawCredit == getValue(row, columnMapping.creditColumn, isUsingIndices)
        debit == parseAmount(IF Falsy(rawDebit) THEN StrZero ELSE rawDebit)
        credit == parseAmount(IF Falsy(rawCredit) THEN StrZero ELSE rawCredit)
        push(amount) == << [date |-> date, description |-> Trim(description),
                            amount |-> amount,
                            rawData |-> IF isUsingIndices THEN << >> ELSE row] >>
    IN  IF Falsy(dateStr) \/ Trim(dateStr) = << >> THEN << >>
        ELSE IF date = Nil THEN << >>
        ELSE IF ~Falsy(columnMapping.amountColumn)
        THEN IF ~Falsy(amountStr) THEN push(parseAmount(amountStr)) ELSE << >>
        ELSE IF ~Falsy(columnMapping.debitColumn) /\ ~Falsy(columnMapping.creditColumn)
        THEN push(credit - debit)
        ELSE << >>

\* the row loop of parseCSV from the i-th row of data on
RECURSIVE ParseRowsFrom(_, _, _, _)
ParseRowsFrom(data, columnMapping, isUsingIndices, i) ==
    IF i > Len(data) THEN << >>
    ELSE ParseRow(data[i], columnMapping, isUsingIndices)
            \o ParseRowsFrom(data, columnMapping, isUsingIndices, i + 1)

\* parseCSV on the rows `data` that Papa.parse delivers for the file
parseCSV(data, columnMapping) ==
    ParseRowsFrom(data, columnMapping, IsIndex(columnMapping.dateColumn), 1)

\* a column mapping (CSVColumnMapping)
Mapping(date, description, amount, debit, credit, balance) ==
    [dateColumn |-> date, descriptionColumn |-> description, amountColumn |-> amount,
     debitColumn |-> debit, creditColumn |-> credit, balanceColumn |-> balance]

(***************************************************************************)
(* csvParser.ts: column mappings.  headers is the sequence of the header   *)
(* cells of the file; a column of a mapping is a header, an index written  *)
(* in digits, or NullStr; a mapping that is null is Nil.                   *)
(***************************************************************************)
StrDate == <<"d","a","t","e">>
StrAmount == <<"a","m","o","u","n","t">>
StrDescription == <<"d","e","s","c","r","i","p","t","i","o","n">>
StrDebit == <<"d","e","b","i","t">>
StrCredit == <<"c","r","e","d","i","t">>
StrBalance == <<"b","a","l","a","n","c","e">>

\* h.trim().toLowerCase()
Normalize(h) == ToLowerCase(Trim(h))

\* headers.find(h => keywords.some(keyword => h.toLowerCase().includes(keyword))
\*                   && !excluded.some(...)) || null
DetectColumn(headers, keywords, excluded) ==
    LET F == { i \in 1..Len(headers) :
                  /\ \E kw \in keywords : Includes(ToLowerCase(headers[i]), kw)
                  /\ ~\E kw \in excluded : Includes(ToLowerCase(headers[i]), kw) }
    IN  IF F = {} THEN NullStr
        ELSE LET h == headers[CHOOSE i \in F : \A j \in F : i <= j]
             IN  IF Falsy(h) THEN NullStr ELSE h

detectDateColumn(headers) ==
    DetectColumn(headers, { <<"d","a","t","e">>, <<"t","r","a","n","s","a","c","t","i","o","n"," ","d","a","t","e">>, <<"p","o","s","t","e","d"," ","d","a","t","e">>, <<"v","a","l","u","e"," ","d","a","t","e">> }, {})

detectDescriptionColumn(headers) ==
    DetectColumn(headers, { <<"d","e","s","c","r","i","p","t","i","o","n">>, <<"n","a","r","r","a","t","i","v","e">>, <<"d","e","t","a","i","l","s">>, <<"m","e","r","c","h","a","n","t">>, <<"p","a","y","e","e">> }, {})

detectAmountColumn(headers) ==
    DetectColumn(headers, { <<"a","m","o","u","n","t">>, <<"v","a","l","u","e">>, <<"t","r","a","n","s","a","c","t","i","o","n">> }, {StrBalance})

detectDebitColumn(headers) ==
    DetectColumn(headers, { <<"d","e","b","i","t">>, <<"w","i","t","h","d","r","a","w","a","l">>, <<"o","u","t">> }, {})

detectCreditColumn(headers) ==
    DetectColumn(headers, { <<"c","r","e","d","i","t">>, <<"d","e","p","o","s","i","t">>, <<"i","n">> }, {})

detectBalanceColumn(headers) ==
    DetectColumn(headers, { <<"b","a","l","a","n","c","e">>, <<"r","u","n","n","i","n","g"," ","b","a","l","a","n","c","e">> }, {})

detectColumns(headers) ==
    Mapping(detectDateColumn(headers), detectDescriptionColumn(headers),
            detectAmountColumn(headers), detectDebitColumn(headers),
            detectCreditColumn(headers), detectBalanceColumn(headers))

\* normalizedHeaders.findIndex(h => exact.includes(h) || h.includes(part)):
\* the (1-based) position of the first such header, 0 for -1
FindIndex(headers, exact, part) ==
    LET F == { i \in 1..Len(headers) :
                  Normalize(headers[i]) \in exact \/ Includes(Normalize(headers[i]), part) }
    IN  IF F = {} THEN 0 ELSE CHOOSE i \in F : \A j \in F : i <= j

hasValidHeaders(headers) ==
    /\ Len(headers) > 0
    /\ \E i \in 1..Len(headers) :
          /\ Normalize(headers[i]) # << >>
          /\ \E kw \in {StrDate, StrAmount, StrDescription, StrDebit, StrCredit} :
                 Includes(Normalize(headers[i]), kw)

isHeaderless(headers) ==
    \/ ~hasValidHeaders(headers)
    \/ Len(headers) = 0
    \/ \A i \in 1..Len(headers) : Falsy(headers[i]) \/ Trim(headers[i]) = << >>

\* the mapping by column indices of the CBA case
PositionalMapping == Mapping(<<"0">>, <<"2">>, <<"1">>, NullStr, NullStr, <<"3">>)

\* headers[col], null for col = -1
HeaderOrNull(headers, col) == IF col = 0 THEN NullStr ELSE headers[col]

\* a CBA case without the positional fallback for unresolved names
CbaColumnMappingNoFallback(headers) ==
    LET dateCol == FindIndex(headers, {StrDate}, StrDate)
        amountCol == FindIndex(headers, {StrAmount}, StrAmount)
        descCol == FindIndex(headers, {StrDescription}, StrDescription)
    IN  IF isHeaderless(headers) THEN PositionalMapping
        ELSE Mapping(HeaderOrNull(headers, dateCol), HeaderOrNull(headers, descCol),
                     HeaderOrNull(headers, amountCol), NullStr, NullStr, NullStr)

\* case 'CBA'
CbaColumnMapping(headers) ==
    LET dateCol == FindIndex(headers, { <<"d","a","t","e">>, <<"t","r","a","n","s","a","c","t","i","o","n"," ","d","a","t","e">> }, StrDate)
        amountCol == FindIndex(headers, { <<"a","m","o","u","n","t">>, <<"t","r","a","n","s","a","c","t","i","o","n"," ","a","m","o","u","n","t">> }, StrAmount)
        descCol == FindIndex(headers, { <<"d","e","s","c","r","i","p","t","i","o","n">>, <<"d","e","t","a","i","l","s">> }, StrDescription)
        balanceCol == FindIndex(headers, {StrBalance}, StrBalance)
    IN  IF isHeaderless(headers) \/ Len(headers) = 0 THEN PositionalMapping
        ELSE IF dateCol = 0 \/ amountCol = 0 \/ descCol = 0 THEN PositionalMapping
        ELSE Mapping(headers[dateCol], headers[descCol], headers[amountCol],
                     NullStr, NullStr, HeaderOrNull(headers, balanceCol))

\* case 'STGEORGE'
StGeorgeColumnMapping(headers) ==
    LET dateCol == FindIndex(headers, { <<"d","a","t","e">>, <<"t","r","a","n","s","a","c","t","i","o","n"," ","d","a","t","e">>, <<"v","a","l","u","e"," ","d","a","t","e">> }, StrDate)
        descCol == FindIndex(headers, { <<"d","e","s","c","r","i","p","t","i","o","n">>, <<"n","a","r","r","a","t","i","v","e">>, <<"d","e","t","a","i","l","s">> }, StrDescription)
        debitCol == FindIndex(headers, { <<"d","e","b","i","t">>, <<"w","i","t","h","d","r","a","w","a","l">> }, StrDebit)
        creditCol == FindIndex(headers, { <<"c","r","e","d","i","t">>, <<"d","e","p","o","s","i","t">> }, StrCredit)
        balanceCol == FindIndex(headers, {StrBalance}, StrBalance)
    IN  IF dateCol = 0 \/ descCol = 0 \/ (debitCol = 0 /\ creditCol = 0) THEN Nil
        ELSE Mapping(headers[dateCol], headers[descCol], NullStr,
                     HeaderOrNull(headers, debitCol), HeaderOrNull(headers, creditCol),
                     HeaderOrNull(headers, balanceCol))

getBankColumnMapping(bankId, headers) ==
    CASE bankId = "CBA" -> CbaColumnMapping(headers)
      [] bankId = "STGEORGE" -> StGeorgeColumnMapping(headers)
      [] OTHER -> detectColumns(headers)

\* the banks of an account (Bank)
Banks == { "CBA", "STGEORGE", "OTHER" }

(***************************************************************************)
(* ImportWizard                                                            *)
(***************************************************************************)
\* the loop of processRemainingTransactions from the (0-based) index i on:
\* the Transactions built from the rows whose index is not skipped
RECURSIVE BuildTransactions(_, _, _, _, _, _)
BuildTransactions(imported, accountId, skippedIndices, rs, now, i) ==
    IF i >= Len(imported) THEN << >>
    ELSE LET rest == BuildTransactions(imported, accountId, skippedIndices, rs, now, i + 1)
             importedTxn == imported[i + 1]
             type == inferTransactionType(importedTxn.amount, importedTxn.description)
             transaction ==
                 [id |-> <<now, i>>,
                  date |-> importedTxn.date,
                  description |-> importedTxn.description,
                  amount |-> importedTxn.amount,
                  currency |-> "AUD",
                  accountId |-> accountId,
                  type |-> type,
                  categoryId |-> Null,
                  isManualEntry |-> FALSE,
                  notes |-> Null,
                  originalData |-> importedTxn.rawData]
             categoryId == autoCategorizeTransaction(transaction, rs)
         IN  IF i \in skippedIndices THEN rest
             ELSE <<[transaction EXCEPT !.categoryId = categoryId]>> \o rest

\* resetWizard: every useState of the wizard back to its initial value
ResetWizard ==
    /\ file' = FALSE
    /\ selectedAccountId' = ""
    /\ step' = "upload"
    /\ isProcessing' = FALSE
    /\ mergeDialogOpen' = FALSE
    /\ currentMerge' = Nil
    /\ pendingDuplicates' = << >>
    /\ processedIndices' = {}
    /\ importedTransactions' = << >>
    /\ currentAccountId' = ""

\* processRemainingTransactions, called with the ledger `txns` the reducer holds
\* at the dispatch, the rule list `rs` of the calling closure and the history h
ProcessRemainingTransactions(txns, imported, accountId, skippedIndices, rs, h) ==
    LET newTransactions ==
            BuildTransactions(imported, accountId, skippedIndices, rs, clock, 0)
    IN  /\ transactions' = AddTransactions(txns, newTransactions)
        /\ clock' = clock + 1
        /\ wizardOpen' = FALSE          \* onOpenChange(false)
        /\ ResetWizard
        /\ hist' = [h EXCEPT !.done =
                        [now |-> clock, imported |-> imported, accountId |-> accountId,
                         skipped |-> skippedIndices, rs |-> rs,
                         keep |-> h.keep, add |-> h.add, dismissed |-> h.dismissed,
                         n |-> Len(pendingDuplicates), nDecisions |-> h.nDecisions]]

\* pendingDuplicates.find(dup => !processed.has(dup.newTransactionIndex)):
\* position of the first such duplicate, 0 when there is none
RECURSIVE FindNextDuplicate(_, _, _)
FindNextDuplicate(pending, processed, k) ==
    IF k > Len(pending) THEN 0
    ELSE IF pending[k].newTransactionIndex \notin processed THEN k
    ELSE FindNextDuplicate(pending, processed, k + 1)

\* processNextDuplicate(processed), run by a decision handler that has made the
\* ledger `txns` and has set processedIndices to `processed`
processNextDuplicate(txns, processed, h) ==
    LET k == FindNextDuplicate(pendingDuplicates, processed, 1)
    IN  IF k # 0
        THEN /\ mergeDialogOpen' = FALSE
             /\ timers' = Append(timers, pendingDuplicates[k])
             /\ processedIndices' = processed
             /\ transactions' = txns
             /\ hist' = h
             /\ UNCHANGED <<wizardOpen, file, selectedAccountId, isProcessing, step,
                            currentMerge, pendingDuplicates, importedTransactions,
                            currentAccountId, clock>>
        ELSE /\ clock <= MaxClock
             /\ ProcessRemainingTransactions(txns, importedTransactions,
                                             currentAccountId, processed, rules, h)
             /\ UNCHANGED timers

\* the merge dialog is rendered with its buttons
MergeDialogShown == currentMerge # Nil /\ mergeDialogOpen

\* the history after a decision on the presented duplicate
Decided(kind) ==
    LET i == currentMerge.newTransactionIndex
    IN  [hist EXCEPT !.decided = @ \cup {i},
                     !.keep = IF kind = "keep" THEN @ \cup {i} ELSE @,
                     !.add = IF kind = "add" THEN @ \cup {i} ELSE @,
                     !.dismissed = IF kind = "dismiss" THEN @ \cup {i} ELSE @,
                     !.nDecisions = @ + 1]

handleMerge ==
    /\ MergeDialogShown
    /\ hist.nDecisions < MaxDecisions
    /\ LET newProcessed == processedIndices \cup {currentMerge.newTransactionIndex}
           merged == MergeTransaction(transactions, currentMerge.existingTransaction.id,
                        [date |-> currentMerge.newTransaction.date,
                         description |-> currentMerge.newTransaction.description])
       IN  processNextDuplicate(merged, newProcessed, Decided("merge"))
    /\ UNCHANGED <<rules, categories, importTask, call>>

\* handleKeepExisting that forgets to mark the row, as handleAddAsNew does
handleKeepExistingUnmarked(via) ==
    /\ MergeDialogShown
    /\ hist.nDecisions < MaxDecisions
    /\ processNextDuplicate(transactions, processedIndices,
                            Decided(IF via = "button" THEN "keep" ELSE "dismiss"))
    /\ UNCHANGED <<rules, categories, importTask, call>>

\* handleKeepExisting; `via` only tells the history whether the Keep Existing
\* button ("button") or the dismissal of the dialog ("dismiss") ran it
handleKeepExisting(via) ==
    /\ MergeDialogShown
    /\ hist.nDecisions < MaxDecisions
    /\ LET newProcessed == processedIndices \cup {currentMerge.newTransactionIndex}
       IN  processNextDuplicate(transactions, newProcessed,
                                Decided(IF via = "button" THEN "keep" ELSE "dismiss"))
    /\ UNCHANGED <<rules, categories, importTask, call>>

handleAddAsNew ==
    /\ MergeDialogShown
    /\ hist.nDecisions < MaxDecisions
    /\ processNextDuplicate(transactions, processedIndices, Decided("add"))
    /\ UNCHANGED <<rules, categories, importTask, call>>

\* an onOpenChange that only records the new `open` value
MergeDialogOnOpenChangeOnlyCloses(open) ==
    /\ mergeDialogOpen' = open
    /\ UNCHANGED <<transactions, rules, categories, wizardOpen, file,
                   selectedAccountId, isProcessing, step, currentMerge,
                   pendingDuplicates, processedIndices, importedTransactions,
                   currentAccountId, importTask, timers, clock, call, hist>>

\* onOpenChange of MergeTransactionDialog
MergeDialogOnOpenChange(open) ==
    IF ~open
    THEN handleKeepExisting("dismiss")
    ELSE /\ mergeDialogOpen' = open
         /\ UNCHANGED <<transactions, rules, categories, wizardOpen, file,
                        selectedAccountId, isProcessing, step, currentMerge,
                        pendingDuplicates, processedIndices, importedTransactions,
                        currentAccountId, importTask, timers, clock, call, hist>>

\* the user dismisses the merge dialog (Escape, click outside, close button)
CloseMergeDialog ==
    /\ MergeDialogShown
    /\ MergeDialogOnOpenChange(FALSE)

\* the callback of the setTimeout of processNextDuplicate
TimerFires ==
    /\ timers # << >>
    /\ currentMerge' = Head(timers)
    /\ mergeDialogOpen' = TRUE
    /\ timers' = Tail(timers)
    /\ hist' = [hist EXCEPT
                   !.repeated = @ \/ Head(timers).newTransactionIndex \in hist.decided]
    /\ UNCHANGED <<transactions, rules, categories, wizardOpen, file,
                   selectedAccountId, isProcessing, step, pendingDuplicates,
                   processedIndices, importedTransactions, currentAccountId,
                   importTask, clock, call>>

\* Layout: the Import button, setImportOpen(true)
OpenWizard ==
    /\ ~wizardOpen
    /\ wizardOpen' = TRUE
    /\ UNCHANGED <<transactions, rules, categories, file, selectedAccountId,
                   isProcessing, step, mergeDialogOpen, currentMerge,
                   pendingDuplicates, processedIndices, importedTransactions,
                   currentAccountId, importTask, timers, clock, call, hist>>

\* onOpenChange(false) of the wizard's Dialog: the parent closes it, then resetWizard
CloseWizard ==
    /\ wizardOpen
    /\ wizardOpen' = FALSE
    /\ ResetWizard
    /\ UNCHANGED <<transactions, rules, categories, importTask, timers, clock, call, hist>>

handleFileSelect(isCsv) ==
    /\ wizardOpen
    /\ step = "upload"
    /\ IF isCsv
       THEN file' = TRUE /\ step' = "account"
       ELSE UNCHANGED <<file, step>>       \* toast 'Invalid file type'
    /\ UNCHANGED <<transactions, rules, categories, wizardOpen, selectedAccountId,
                   isProcessing, mergeDialogOpen, currentMerge, pendingDuplicates,
                   processedIndices, importedTransactions, currentAccountId,
                   importTask, timers, clock, call, hist>>

\* onValueChange of the account Select
setSelectedAccountId(a) ==
    /\ wizardOpen
    /\ step = "account"
    /\ selectedAccountId' = a
    /\ UNCHANGED <<transactions, rules, categories, wizardOpen, file, isProcessing,
                   step, mergeDialogOpen, currentMerge, pendingDuplicates,
                   processedIndices, importedTransactions, currentAccountId,
                   importTask, timers, clock, call, hist>>

\* handleImport up to its first await; the continuation keeps the closure's
\* accountId and the `state` of the render the click happened in.  hist.started
\* records that the import of the behaviour's file has begun, hist.before the
\* ledger at that moment.
handleImportStart(bankId, headers) ==
    /\ wizardOpen
    /\ step = "account"
    /\ importTask = Nil
    /\ ~hist.started
    /\ IF ~file \/ selectedAccountId = ""
       THEN UNCHANGED <<isProcessing, step, currentAccountId, importTask, hist>>
       ELSE /\ hist' = [NoHist EXCEPT !.started = TRUE, !.before = transactions]
            /\ isProcessing' = TRUE
            /\ step' = "processing"
            /\ currentAccountId' = selectedAccountId
            /\ importTask' = [accountId |-> selectedAccountId, bankId |-> bankId,
                              headers |-> headers,
                              transactions |-> transactions, rules |-> rules]
    /\ UNCHANGED <<transactions, rules, categories, wizardOpen, file,
                   selectedAccountId, mergeDialogOpen, currentMerge, pendingDuplicates,
                   processedIndices, importedTransactions, timers, clock, call>>

\* the column mapping that handleImport resolves for the bank of the account
\* and the header line of the file
ResolveColumnMapping(bankId, headers) ==
    IF bankId # "OTHER" THEN getBankColumnMapping(bankId, headers)
                        ELSE detectColumns(headers)

\* the checks of handleImport on the resolved mapping: each one that fails
\* shows a toast, clears isProcessing and returns
MappingRejectedNullOnly(columnMapping) ==
    columnMapping = Nil

MappingRejected(columnMapping) ==
    \/ columnMapping = Nil
    \/ Falsy(columnMapping.dateColumn) \/ Falsy(columnMapping.descriptionColumn)
    \/ /\ Falsy(columnMapping.amountColumn)
       /\ Falsy(columnMapping.debitColumn) \/ Falsy(columnMapping.creditColumn)

\* handleImport after file.text() has resolved: the mapping is resolved and
\* checked, and, when it is accepted, parseCSV resolves with `imported`
handleImportResume(imported) ==
    /\ importTask # Nil
    /\ importTask' = Nil
    /\ LET accountId == importTask.accountId
           columnMapping == ResolveColumnMapping(importTask.bankId, importTask.headers)
           duplicates == findPotentialDuplicates(importTask.transactions, imported, accountId)
       IN  IF MappingRejected(columnMapping)
           THEN /\ isProcessing' = FALSE
                /\ UNCHANGED <<transactions, wizardOpen, file, selectedAccountId, step,
                               mergeDialogOpen, currentMerge, pendingDuplicates,
                               processedIndices, importedTransactions,
                               currentAccountId, clock, hist>>
           ELSE IF Len(duplicates) > 0
           THEN /\ importedTransactions' = imported
                /\ pendingDuplicates' = duplicates
                /\ processedIndices' = {}
                /\ step' = "merging"
                /\ currentMerge' = duplicates[1]
                /\ mergeDialogOpen' = TRUE
                /\ hist' = [NoHist EXCEPT !.started = TRUE, !.before = hist.before]
                /\ UNCHANGED <<transactions, wizardOpen, file, selectedAccountId,
                               isProcessing, currentAccountId, clock>>
           ELSE /\ clock <= MaxClock
                /\ ProcessRemainingTransactions(transactions, imported, accountId, {},
                                                importTask.rules,
                                                [NoHist EXCEPT !.started = TRUE,
                                                               !.before = hist.before])
    /\ UNCHANGED <<rules, categories, timers, call>>

(***************************************************************************)
(* The import wizard over a ledger                                         *)
(***************************************************************************)
\* header lines of the file being imported: one every bank but St. George
\* maps, one with a debit and no credit column, one without a date column
WizardHeaderRows ==
    { << <<"D","a","t","e">>, <<"D","e","s","c","r","i","p","t","i","o","n">>,
         <<"A","m","o","u","n","t">> >>,
      << <<"D","a","t","e">>, <<"D","e","t","a","i","l","s">>,
         <<"D","e","b","i","t">> >>,
      << <<"A","m","o","u","n","t">>, <<"B","a","l","a","n","c","e">> >> }

WizardIdle ==
    /\ file = FALSE
    /\ selectedAccountId = ""
    /\ step = "upload"
    /\ isProcessing = FALSE
    /\ mergeDialogOpen = FALSE
    /\ currentMerge = Nil
    /\ pendingDuplicates = << >>
    /\ processedIndices = {}
    /\ importedTransactions = << >>
    /\ currentAccountId = ""

Init ==
    /\ transactions \in SeqsNoRep(LedgerPool, MaxLedger)
    /\ rules \in SeqsNoRep(RulePool, MaxRules)
    /\ categories = CategoryIds
    /\ wizardOpen = FALSE
    /\ WizardIdle
    /\ importTask = Nil
    /\ timers = << >>
    /\ clock = 1
    /\ call = NoCall
    /\ hist = NoHist

Next ==
    \/ OpenWizard
    \/ CloseWizard
    \/ \E isCsv \in BOOLEAN : handleFileSelect(isCsv)
    \/ \E a \in AccountIds : setSelectedAccountId(a)
    \/ \E bankId \in Banks, headers \in WizardHeaderRows : handleImportStart(bankId, headers)
    \/ \E imported \in SeqsUpTo(RowPool, MaxRows) : handleImportResume(imported)
    \/ handleMerge
    \/ handleKeepExisting("button")
    \/ handleAddAsNew
    \/ CloseMergeDialog
    \/ TimerFires

Spec == Init /\ [][Next]_vars

(***************************************************************************)
(* The ledger reducer under arbitrary MERGE_TRANSACTION and                *)
(* DELETE_TRANSACTION dispatches                                           *)
(***************************************************************************)
\* ids a dispatch may name: those of LedgerPool and one no transaction has
DispatchIds == { <<0, k>> : k \in 1..4 }
CsvDataPool == { [date |-> 48, description |-> StrShopUpper],
                 [date |-> 96, description |-> StrPay] }

ReducerFrame ==
    UNCHANGED <<rules, wizardOpen, file, selectedAccountId, isProcessing, step,
                mergeDialogOpen, currentMerge, pendingDuplicates, processedIndices,
                importedTransactions, currentAccountId, importTask, timers, clock,
                hist>>

InitReducer ==
    /\ transactions \in SeqsNoRep(LedgerPool, MaxLedger)
    /\ categories \in { CategoryIds, <<"cat-food", "cat-misc">> }
    /\ rules = << >>
    /\ wizardOpen = FALSE
    /\ WizardIdle
    /\ importTask = Nil
    /\ timers = << >>
    /\ clock = 1
    /\ call = NoCall
    /\ hist = NoHist

DispatchMerge(id, csvData) ==
    /\ transactions' = MergeTransaction(transactions, id, csvData)
    /\ call' = [fn |-> "MERGE_TRANSACTION", id |-> id, csvData |-> csvData]
    /\ UNCHANGED categories
    /\ ReducerFrame

DispatchMergeRefund(id, csvData) ==
    /\ transactions' = MergeTransactionRefund(transactions, categories, id, csvData)
    /\ call' = [fn |-> "MERGE_TRANSACTION", id |-> id, csvData |-> csvData]
    /\ UNCHANGED categories
    /\ ReducerFrame

DispatchDelete(id) ==
    /\ transactions' = DeleteTransaction(transactions, id)
    /\ call' = [fn |-> "DELETE_TRANSACTION", id |-> id]
    /\ UNCHANGED categories
    /\ ReducerFrame

NextReducer ==
    \/ \E id \in DispatchIds, csvData \in CsvDataPool : DispatchMerge(id, csvData)
    \/ \E id \in DispatchIds, csvData \in CsvDataPool : DispatchMergeRefund(id, csvData)
    \/ \E id \in DispatchIds : DispatchDelete(id)

SpecReducer == InitReducer /\ [][NextReducer]_vars

\* the fields MERGE_TRANSACTION must leave alone
SamePreservedFields(t, u) ==
    /\ u.categoryId = t.categoryId
    /\ u.notes = t.notes
    /\ u.amount = t.amount
    /\ u.accountId = t.accountId
    /\ u.currency = t.currency
    /\ u.id = t.id
    /\ u.isManualEntry = t.isManualEntry

MergeEffect(before, after, id, csvData) ==
    /\ Len(after) = Len(before)
    /\ \A k \in 1..Len(before) :
          IF before[k].id = id
          THEN /\ after[k].date = csvData.date
               /\ after[k].description = csvData.description
               /\ SamePreservedFields(before[k], after[k])
          ELSE after[k] = before[k]
    /\ (\A k \in 1..Len(before) : before[k].id # id) => after = before

\* C3: MERGE_TRANSACTION(id, csvData), in either reducer variant, sets the date and
\* the description of the transaction with that id to the CSV values, keeps its
\* categoryId, notes, amount, accountId, currency, id and isManualEntry, and leaves
\* every other transaction, the length and the order of the ledger unchanged; with
\* no transaction of that id the ledger is unchanged.
C3_MergeFrame ==
    [][\A id \in DispatchIds, csvData \in CsvDataPool :
          (DispatchMerge(id, csvData) \/ DispatchMergeRefund(id, csvData))
              => MergeEffect(transactions, transactions', id, csvData)]_vars

\* a merge has rewritten the first pool transaction and kept its category and notes,
\* next to a transaction it left alone
C3_Witness ==
    /\ call.fn = "MERGE_TRANSACTION"
    /\ Len(transactions) = 2
    /\ \E k \in 1..2 :
          /\ transactions[k].id = call.id
          /\ transactions[k].date = 96
          /\ transactions[k].description = StrPay
          /\ transactions[k].categoryId = "cat-food"
          /\ transactions[k].notes = "note"

(***************************************************************************)
(* findPotentialDuplicates applied to a ledger, a list of parsed rows and  *)
(* an account                                                              *)
(***************************************************************************)
DupRowPool ==
    RowPool \cup { Row(24, StrXfer, -45595), Row(72, StrShop, -45600),
                   Row(24, StrShop, -45610) }

InitDup ==
    /\ transactions \in SeqsNoRep(LedgerPool, MaxLedger)
    /\ importedTransactions \in SeqsUpTo(DupRowPool, MaxRows)
    /\ currentAccountId \in AccountIds
    /\ categories = CategoryIds
    /\ rules = << >>
    /\ wizardOpen = FALSE
    /\ file = FALSE
    /\ selectedAccountId = ""
    /\ step = "upload"
    /\ isProcessing = FALSE
    /\ mergeDialogOpen = FALSE
    /\ currentMerge = Nil
    /\ pendingDuplicates = << >>
    /\ processedIndices = {}
    /\ importTask = Nil
    /\ timers = << >>
    /\ clock = 1
    /\ call = NoCall
    /\ hist = NoHist

CallFindPotentialDuplicates ==
    /\ call = NoCall
    /\ call' = [fn |-> "findPotentialDuplicates",
                result |-> findPotentialDuplicates(transactions, importedTransactions,
                                                   currentAccountId)]
    /\ UNCHANGED <<transactions, rules, categories, wizardOpen, file,
                   selectedAccountId, isProcessing, step, mergeDialogOpen, currentMerge,
                   pendingDuplicates, processedIndices, importedTransactions,
                   currentAccountId, importTask, timers, clock, hist>>

NextDup == CallFindPotentialDuplicates

SpecDup == InitDup /\ [][NextDup]_vars

\* the duplicate criteria as the specification words them: same account, amounts
\* less than 0.01 apart, dates at most one day apart
SpecCriteria(existingTxn, newTxn, accountId) ==
    /\ existingTxn.accountId = accountId
    /\ Abs(existingTxn.amount - newTxn.amount) < AmountTolerance
    /\ Abs(existingTxn.date - newTxn.date) <= HoursPerDay

\* C8: findPotentialDuplicates returns, in increasing order of the new
\* transaction's index, at most one PotentialDuplicate per new transaction; one
\* exists iff some existing transaction meets the criteria, and it then pairs the
\* new transaction with the first such transaction in the ledger's stored order.
C8_FindPotentialDuplicates ==
    call.fn = "findPotentialDuplicates" =>
        LET r == call.result
            Matching(i) ==
                { k \in 1..Len(transactions) :
                    SpecCriteria(transactions[k], importedTransactions[i + 1],
                                 currentAccountId) }
        IN  /\ \A a, b \in 1..Len(r) :
                   a < b => r[a].newTransactionIndex < r[b].newTransactionIndex
            /\ \A i \in 0..(Len(importedTransactions) - 1) :
                   (\E a \in 1..Len(r) : r[a].newTransactionIndex = i)
                       <=> Matching(i) # {}
            /\ \A a \in 1..Len(r) :
                   LET i == r[a].newTransactionIndex
                   IN  /\ i \in 0..(Len(importedTransactions) - 1)
                       /\ r[a].newTransaction = importedTransactions[i + 1]
                       /\ \E k \in Matching(i) :
                              /\ \A j \in Matching(i) : k <= j
                              /\ r[a].existingTransaction = transactions[k]

\* the first row has no match and is left out; the second meets the criteria for
\* both ledger entries and is paired with the first of them
C8_Witness ==
    /\ call.fn = "findPotentialDuplicates"
    /\ Len(importedTransactions) = 2
    /\ Len(transactions) = 2
    /\ Len(call.result) = 1
    /\ call.result[1].newTransactionIndex = 1
    /\ SpecCriteria(transactions[1], importedTransactions[2], currentAccountId)
    /\ SpecCriteria(transactions[2], importedTransactions[2], currentAccountId)
    /\ call.result[1].existingTransaction = transactions[1]

(***************************************************************************)
(* matchCategory applied to a rule list, a description and a type          *)
(***************************************************************************)
TransactionTypes == {"INCOME", "EXPENSE", "TRANSFER"}

MatchRulePool ==
    { Rule(1, "contains", <<"s","h","o">>, "cat-food", "EXPENSE", FALSE),
      Rule(2, "contains", <<"S","H","O","P">>, "cat-misc", "ALL", TRUE),
      Rule(3, "regex", <<"s",".","o">>, "cat-shop", "EXPENSE", FALSE),
      Rule(4, "regex", <<"(","p">>, "cat-bad", "INCOME", FALSE),
      Rule(5, "contains", <<"p","a","y">>, "cat-pay", "INCOME", FALSE),
      Rule(6, "regex", <<"x","f">>, "cat-xfer", "TRANSFER", TRUE) }

DescriptionPool == { StrShop, StrShopUpper, StrXfer, StrPay }

InitMatch ==
    /\ rules \in SeqsNoRep(MatchRulePool, MaxMatchRules)
    /\ call \in [fn : {"args"}, description : DescriptionPool, type : TransactionTypes]
    /\ transactions = << >>
    /\ categories = CategoryIds
    /\ wizardOpen = FALSE
    /\ WizardIdle
    /\ importTask = Nil
    /\ timers = << >>
    /\ clock = 1
    /\ hist = NoHist

CallMatchCategory ==
    /\ call.fn = "args"
    /\ call' = [call EXCEPT !.fn = "matchCategory"] @@
               [result |-> matchCategory(call.description, rules, call.type)]
    /\ UNCHANGED <<transactions, rules, categories, wizardOpen, file,
                   selectedAccountId, isProcessing, step, mergeDialogOpen, currentMerge,
                   pendingDuplicates, processedIndices, importedTransactions,
                   currentAccountId, importTask, timers, clock, hist>>

NextMatch == CallMatchCategory

SpecMatch == InitMatch /\ [][NextMatch]_vars

\* a rule is applicable to a transaction type when its targetType is that type or
\* the wildcard ALL
Applicable(rule, type) == rule.targetType = type \/ rule.targetType = "ALL"

\* positions of the applicable rules of rs that match the description
ApplicableMatches(rs, description, type) ==
    { k \in 1..Len(rs) : Applicable(rs[k], type) /\ RuleMatches(rs[k], description) }

\* the category of the first applicable matching rule, Null without one
FirstApplicableMatch(rs, description, type) ==
    LET M == ApplicableMatches(rs, description, type)
    IN  IF M = {} THEN Null
        ELSE rs[CHOOSE k \in M : \A j \in M : k <= j].categoryId

\* C9: matchCategory returns the categoryId of the first rule, in the given order,
\* that is applicable to the transaction type and matches the description, and
\* null iff no applicable rule matches.
C9_FirstApplicableRuleWins ==
    call.fn = "matchCategory" =>
        call.result = FirstApplicableMatch(rules, call.description, call.type)

\* C10: a rule is considered iff its targetType is the transaction's type or ALL:
\* whenever a rule with targetType ALL matches the description, the transaction
\* is categorized, whatever its type.
C10_AllIsWildcard ==
    call.fn = "matchCategory" =>
        /\ (\E k \in 1..Len(rules) :
               rules[k].targetType = "ALL" /\ RuleMatches(rules[k], call.description))
              => call.result # Null
        /\ call.result # Null =>
              \E k \in 1..Len(rules) :
                  /\ Applicable(rules[k], call.type)
                  /\ rules[k].categoryId = call.result

(***************************************************************************)
(* Properties of the merge-resolution flow (checked under Spec)            *)
(***************************************************************************)
\* some ledger transaction was created, at the time `now`, from the row of index i
CreatedFromRow(txns, now, i) == \E k \in 1..Len(txns) : txns[k].id = <<now, i>>

\* C1: every duplicate on which the user chose Add As New is, once the flow has
\* completed, in the ledger as a transaction created from its row.
C1_AddAsNewIsInserted ==
    hist.done # Nil =>
        \A i \in hist.done.add : CreatedFromRow(transactions, hist.done.now, i)

\* C2: no duplicate is presented again after a decision on it, and a flow over a
\* queue of n potential duplicates completes after exactly n decisions.
C2_AdvancesAndCompletesInN ==
    /\ ~hist.repeated
    /\ hist.done # Nil => hist.done.nDecisions = hist.done.n

\* the flow goes on after a decision: a further duplicate is to be presented
FlowContinues(processed) ==
    \E k \in 1..Len(pendingDuplicates) :
        pendingDuplicates[k].newTransactionIndex \notin processed

\* C4: Keep Existing marks the new row's index consumed and does not modify the
\* ledger (when it is the last decision, the rows appended by the completion of
\* the flow do not include that row); after the flow has completed, the ledger
\* holds no transaction created from a row the user kept the existing entry for.
C4_KeepExistingDiscardsRow ==
    /\ [][handleKeepExisting("button") =>
            LET i == currentMerge.newTransactionIndex
            IN  /\ SubSeq(transactions', 1, Len(transactions)) = transactions
                /\ ~CreatedFromRow(transactions', clock, i)
                /\ IF FlowContinues(processedIndices \cup {i})
                   THEN /\ i \in processedIndices'
                        /\ transactions' = transactions
                   ELSE /\ hist'.done # Nil
                        /\ i \in hist'.done.skipped]_vars
    /\ [](hist.done # Nil =>
            \A i \in hist.done.keep : ~CreatedFromRow(transactions, hist.done.now, i))

\* a flow has completed in which Keep Existing was chosen for one row while another
\* row of the same file was inserted
C4_Witness ==
    /\ hist.done # Nil
    /\ hist.done.keep # {}
    /\ hist.dismissed = {}
    /\ \E j \in 0..(Len(hist.done.imported) - 1) :
          /\ j \notin hist.done.keep
          /\ CreatedFromRow(transactions, hist.done.now, j)

\* the indices of the rows of a completed import that were not consumed
NonConsumed(d) == { i \in 0..(Len(d.imported) - 1) : i \notin d.skipped }

\* C5: when the flow completes, or no duplicate was found, the ledger gains exactly
\* one Transaction per imported row whose index was not consumed, in input order,
\* with the import account, type = inferTransactionType(amount, description) and
\* the category of the first matching rule (null without one), and the wizard is
\* idle again.
C5_RemainingRowsAppended ==
    [][hist'.done # hist.done =>
          LET d == hist'.done
              base == Len(transactions)
              Rank(i) == Cardinality({ j \in NonConsumed(d) : j < i }) + 1
          IN  /\ Len(transactions') = base + Cardinality(NonConsumed(d))
              /\ \A i \in NonConsumed(d) :
                    LET t == transactions'[base + Rank(i)]
                        r == d.imported[i + 1]
                    IN  /\ t.id = <<d.now, i>>
                        /\ t.date = r.date
                        /\ t.description = r.description
                        /\ t.amount = r.amount
                        /\ t.accountId = d.accountId
                        /\ t.type = inferTransactionType(r.amount, r.description)
                        /\ t.categoryId =
                               FirstApplicableMatch(d.rs, r.description, t.type)
              /\ WizardIdle'
              /\ ~wizardOpen']_vars

\* what handleKeepExisting is documented to do to the presented duplicate
KeepExistingEffect ==
    LET i == currentMerge.newTransactionIndex
        processed == processedIndices \cup {i}
    IN  /\ SubSeq(transactions', 1, Len(transactions)) = transactions
        /\ ~CreatedFromRow(transactions', clock, i)
        /\ IF FlowContinues(processed)
           THEN /\ processedIndices' = processed
                /\ transactions' = transactions
                /\ ~mergeDialogOpen'
                /\ Len(timers') = Len(timers) + 1
                /\ Len(timers') > 0
                /\ LET next == timers'[Len(timers')]
                   IN  /\ next.newTransactionIndex \notin processed
                       /\ \E k \in 1..Len(pendingDuplicates) :
                             /\ pendingDuplicates[k] = next
                             /\ \A j \in 1..(k - 1) :
                                   pendingDuplicates[j].newTransactionIndex \in processed
           ELSE /\ hist'.done # Nil
                /\ hist'.done.skipped = processed
                /\ Len(transactions') = Len(transactions) +
                       Cardinality({ j \in 0..(Len(importedTransactions) - 1) :
                                        j \notin processed })
                /\ WizardIdle'
                /\ ~wizardOpen'

\* C6: dismissing the merge dialog has the effect of Keep Existing on the presented
\* duplicate: its row is marked consumed, the ledger is not modified (but for the
\* rows the completion of the flow appends), and the flow advances as after the
\* Keep Existing button.
C6_DismissIsKeepExisting ==
    [][CloseMergeDialog => KeepExistingEffect]_vars

\* the merge dialog was dismissed on one duplicate and the next one is on its way
C6_Witness ==
    /\ hist.dismissed # {}
    /\ hist.dismissed \subseteq processedIndices
    /\ timers # << >>

\* C7: closing the wizard while duplicates are unresolved completes the import as if
\* Keep Existing had been chosen for each of them: the rows that are not consumed
\* are appended, the existing transactions are not modified.
C7_CloseCompletesImport ==
    [][(CloseWizard /\ step = "merging" /\ FlowContinues(processedIndices)) =>
          LET skipped == processedIndices \cup
                  { pendingDuplicates[k].newTransactionIndex :
                        k \in 1..Len(pendingDuplicates) }
              rest == { i \in 0..(Len(importedTransactions) - 1) : i \notin skipped }
          IN  /\ SubSeq(transactions', 1, Len(transactions)) = transactions
              /\ Len(transactions') = Len(transactions) + Cardinality(rest)
              /\ \A i \in rest :
                    \E k \in (Len(transactions) + 1)..Len(transactions') :
                        /\ transactions'[k].date = importedTransactions[i + 1].date
                        /\ transactions'[k].description =
                               importedTransactions[i + 1].description
                        /\ transactions'[k].amount = importedTransactions[i + 1].amount
                        /\ transactions'[k].accountId = currentAccountId]_vars

(***************************************************************************)
(* Invalid patterns (checked under SpecMatch)                              *)
(***************************************************************************)
\* the rule is a regex rule whose pattern `new RegExp` rejects
InvalidRegex(rule) == rule.matchType = "regex" /\ ~RegExpValid(rule.pattern)

\* C11: an invalid regex pattern never aborts categorization: the result of
\* matchCategory equals its result on the rule list without the invalid rules,
\* so every later rule is still evaluated in order.
C11_InvalidRegexSkipped ==
    call.fn = "matchCategory" =>
        call.result = matchCategory(call.description,
                                    SelectSeq(rules, LAMBDA r : ~InvalidRegex(r)),
                                    call.type)

\* an invalid rule of the transaction's type comes first and a later rule of the
\* list has categorized the description
C11_Witness ==
    /\ call.fn = "matchCategory"
    /\ Len(rules) = 2
    /\ InvalidRegex(rules[1])
    /\ rules[1].targetType = call.type
    /\ call.result = rules[2].categoryId

(***************************************************************************)
(* Pure functions applied to arguments: the arguments are drawn in the     *)
(* initial state (call.fn = "args") and one step applies the function.     *)
(***************************************************************************)
\* the rest of the state while a function is applied
PureInit ==
    /\ transactions = << >>
    /\ rules = << >>
    /\ categories = CategoryIds
    /\ wizardOpen = FALSE
    /\ WizardIdle
    /\ importTask = Nil
    /\ timers = << >>
    /\ clock = 1
    /\ hist = NoHist

PureFrame ==
    UNCHANGED <<transactions, rules, categories, wizardOpen, file,
                selectedAccountId, isProcessing, step, mergeDialogOpen, currentMerge,
                pendingDuplicates, processedIndices, importedTransactions,
                currentAccountId, importTask, timers, clock, hist>>

(***************************************************************************)
(* inferTransactionType applied to an amount and a description             *)
(***************************************************************************)
InferDescriptionPool ==
    { <<"T","r","a","n","s","f","e","r"," ","o","u","t">>,
      <<"X","F","E","R">>,
      <<"P","a","y","m","e","n","t"," ","S","e","n","t">>,
      <<"p","a","y","m","e","n","t"," ","r","e","c","e","i","v","e","d">>,
      <<"P","a","y","m","e","n","t"," ","R","e","c","e","i","v","e","d"," ","x">>,
      <<"p","a","y","m","e","n","t"," ","s","e","n","t">>,
      <<"S","h","o","p">>,
      <<"P","a","y">>,
      <<"t","r","a","n","s"," ","f","e","r">>,
      <<"P","a","y","m","e","n","t">> }

InferAmountPool == { -45600, -10, -1, 0, 1, 10000 }

InitInfer ==
    /\ call \in [fn : {"args"}, amount : InferAmountPool,
                  description : InferDescriptionPool]
    /\ PureInit

CallInferTransactionType ==
    /\ call.fn = "args"
    /\ call' = [call EXCEPT !.fn = "inferTransactionType"] @@
               [result |-> inferTransactionType(call.amount, call.description)]
    /\ PureFrame

NextInfer == CallInferTransactionType

SpecInfer == InitInfer /\ [][NextInfer]_vars

\* the lower-cased description contains one of the keywords
ContainsKeyword(description, kws) ==
    \E kw \in kws : \E k \in 0..(Len(description) - Len(kw)) :
        SubSeq(ToLowerCase(description), k + 1, k + Len(kw)) = kw

\* C12: for a positive amount inferTransactionType returns TRANSFER when the
\* lower-cased description contains "transfer", "xfer" or "payment sent" and
\* INCOME otherwise; for a negative amount, TRANSFER when it contains "transfer",
\* "xfer" or "payment received" and EXPENSE otherwise.
C12_InferTransactionType ==
    call.fn = "inferTransactionType" =>
        /\ call.amount > 0 =>
              call.result =
                  IF ContainsKeyword(call.description,
                        { <<"t","r","a","n","s","f","e","r">>, <<"x","f","e","r">>, <<"p","a","y","m","e","n","t"," ","s","e","n","t">> })
                  THEN "TRANSFER" ELSE "INCOME"
        /\ call.amount < 0 =>
              call.result =
                  IF ContainsKeyword(call.description,
                        { <<"t","r","a","n","s","f","e","r">>, <<"x","f","e","r">>, <<"p","a","y","m","e","n","t"," ","r","e","c","e","i","v","e","d">> })
                  THEN "TRANSFER" ELSE "EXPENSE"

\* a negative amount whose description holds a keyword written with capitals
C12_Witness ==
    /\ call.fn = "inferTransactionType"
    /\ call.amount < 0
    /\ call.description # ToLowerCase(call.description)
    /\ call.result = "TRANSFER"

(***************************************************************************)
(* parseCSV applied to the rows of a file and a column mapping             *)
(***************************************************************************)
MaxCsvRows == 2         \* rows of the file given to parseCSV

HdrDate == <<"D","a","t","e">>
HdrDescription == <<"D","e","s","c","r","i","p","t","i","o","n">>
HdrAmount == <<"A","m","o","u","n","t">>
HdrDebit == <<"D","e","b","i","t">>
HdrCredit == <<"C","r","e","d","i","t">>

\* a row as Papa.parse delivers it with header: true
CsvRow(date, description, amount, debit, credit) ==
    (HdrDate :> date) @@ (HdrDescription :> description) @@ (HdrAmount :> amount)
        @@ (HdrDebit :> debit) @@ (HdrCredit :> credit)

\* the same row as Papa.parse delivers it with header: false, in the column
\* order date, amount, description
CsvArray(row) == <<row[HdrDate], row[HdrAmount], row[HdrDescription]>>

CsvRowPool ==
    { CsvRow(<<"3","1","/","0","1","/","2","0","2","5">>, <<" ","S","h","o","p"," ">>, <<"-","4","5",".","6","0">>, <<"4","5",".","6","0">>, << >>),
      CsvRow(<<" "," ">>, <<"P","a","y">>, <<"1","0",".","0","0">>, << >>, <<"1","0",".","0","0">>),
      CsvRow(<<"3","0","/","0","2","/","2","0","2","5">>, <<"S","h","o","p">>, <<"-","1",".","0","0">>, <<"1",".","0","0">>, << >>),
      CsvRow(<<"0","3","/","0","4","/","2","0","2","4">>, <<"P","a","y">>, <<"N","/","A">>, << >>, << >>),
      CsvRow(<<"0","1","/","3","1","/","2","0","2","5">>, << >>, <<"$","1",",","2","3","4",".","5","6">>, << >>, <<"1",",","2","3","4",".","5","6">>),
      CsvRow(<<"3","/","4","/","2","0","2","4">>, <<"x","f","e","r">>, << >>, <<"1","2",".","0","0">>, << >>) }

\* mappings by header name (single amount column; debit and credit columns) and
\* the positional mapping
CsvMappingPool ==
    { Mapping(HdrDate, HdrDescription, HdrAmount, NullStr, NullStr, NullStr),
      Mapping(HdrDate, HdrDescription, NullStr, HdrDebit, HdrCredit, NullStr),
      Mapping(<<"0">>, <<"2">>, <<"1">>, NullStr, NullStr, <<"3">>) }

\* the rows Papa.parse delivers for the mapping: arrays when parseCSV asks for
\* header: false
PapaRows(rows, columnMapping) ==
    IF IsIndex(columnMapping.dateColumn)
    THEN [i \in 1..Len(rows) |-> CsvArray(rows[i])]
    ELSE rows

InitCsv ==
    /\ \E rows \in SeqsUpTo(CsvRowPool, MaxCsvRows), m \in CsvMappingPool :
           call = [fn |-> "args", rows |-> rows, data |-> PapaRows(rows, m),
                   columnMapping |-> m]
    /\ PureInit

CallParseCSV ==
    /\ call.fn = "args"
    /\ call' = [call EXCEPT !.fn = "parseCSV"] @@
               [result |-> parseCSV(call.data, call.columnMapping)]
    /\ PureFrame

NextCsv == CallParseCSV

SpecCsv == InitCsv /\ [][NextCsv]_vars

\* the date cell is present, not blank and parseable in some supported format
DateResolvable(row) ==
    /\ ~Falsy(row[HdrDate])
    /\ Trim(row[HdrDate]) # << >>
    /\ \E k \in 1..Len(DATE_FORMATS) : DateFnsParse(row[HdrDate], DATE_FORMATS[k]) # Nil

\* the cell is present and, once cleaned of decoration, starts with a number
NumberCell(cell) == ~Falsy(cell) /\ ~ParseFloat(KeepNumeric(cell)).nan

\* the amount of the row is present and parseable: the amount cell under a
\* single-column mapping; under a debit / credit mapping a missing cell counts
\* as 0 and every cell that is filled in has to be a number
AmountResolvable(row, columnMapping) ==
    IF ~Falsy(columnMapping.amountColumn)
    THEN NumberCell(row[HdrAmount])
    ELSE \A h \in {HdrDebit, HdrCredit} : Falsy(row[h]) \/ NumberCell(row[h])

\* C13: the output of parseCSV omits every row whose date is missing, blank or
\* unparseable in all supported formats and every row whose amount is missing or
\* unparseable as a number; every other row appears in it, in input order.
C13_UnresolvableRowsDropped ==
    call.fn = "parseCSV" =>
        LET kept == SelectSeq(call.rows,
                       LAMBDA row : DateResolvable(row)
                                      /\ AmountResolvable(row, call.columnMapping))
        IN  /\ Len(call.result) = Len(kept)
            /\ \A k \in 1..Len(kept) :
                  /\ call.result[k].date = parseDate(kept[k][HdrDate])
                  /\ call.result[k].description =
                        Trim(IF Falsy(kept[k][HdrDescription]) THEN StrUnknown
                             ELSE kept[k][HdrDescription])

(***************************************************************************)
(* parseDate applied to a date string made of two day / month parts and a  *)
(* year, written part-part-year or year-part-part with one separator       *)
(***************************************************************************)
DatePartPool ==
    { <<"0","3">>, <<"0","4">>, <<"3","1">>, <<"0","1">>, <<"1","3">>, <<"2","9">>, <<"0","2">>, <<"3">>, <<"0","0">>, <<"1","2">> }

DateYearPool == { <<"2","0","2","4">>, <<"2","0","2","5">> }

DateSeparators == { "/", "-" }

\* the string of the parts a, b and the year y
DateString(a, b, y, sep, yearFirst) ==
    IF yearFirst THEN y \o <<sep>> \o a \o <<sep>> \o b
    ELSE a \o <<sep>> \o b \o <<sep>> \o y

InitDate ==
    /\ \E a \in DatePartPool, b \in DatePartPool, y \in DateYearPool,
          sep \in DateSeparators, yearFirst \in BOOLEAN :
           call = [fn |-> "args", a |-> a, b |-> b, y |-> y, sep |-> sep,
                   yearFirst |-> yearFirst,
                   dateStr |-> DateString(a, b, y, sep, yearFirst)]
    /\ PureInit

CallParseDate ==
    /\ call.fn = "args"
    /\ call' = [call EXCEPT !.fn = "parseDate"] @@ [result |-> parseDate(call.dateStr)]
    /\ PureFrame

NextDate == CallParseDate

SpecDate == InitDate /\ [][NextDate]_vars

\* day d of month m of year y exists in the calendar
CalendarDate(y, m, d) ==
    /\ m \in 1..12
    /\ d >= 1
    /\ d <= IF m = 2
            THEN (IF y % 4 = 0 /\ (y % 100 # 0 \/ y % 400 = 0) THEN 29 ELSE 28)
            ELSE IF m \in {4, 6, 9, 11} THEN 30 ELSE 31

\* the number a string of digits writes
Number(str) == NumAt(str, 1, Len(str))

\* C14: parseDate takes the first of the formats dd/MM/yyyy, MM/dd/yyyy,
\* yyyy-MM-dd, dd-MM-yyyy, MM-dd-yyyy, d/M/yyyy, M/d/yyyy that yields a valid
\* calendar date: a/b/yyyy is day a of month b whenever that is a valid date,
\* month a and day b only otherwise, and null when no format succeeds.
C14_DayFirstThenMonthFirst ==
    call.fn = "parseDate" =>
        LET a == Number(call.a)
            b == Number(call.b)
            y == Number(call.y)
            OK == { k \in 1..Len(DATE_FORMATS) :
                       DateFnsParse(call.dateStr, DATE_FORMATS[k]) # Nil }
        IN  /\ call.result =
                  IF OK = {} THEN Nil
                  ELSE DateFnsParse(call.dateStr,
                           DATE_FORMATS[CHOOSE k \in OK : \A j \in OK : k <= j])
            /\ ~call.yearFirst =>
                  call.result =
                      IF CalendarDate(y, b, a) THEN [year |-> y, month |-> b, day |-> a]
                      ELSE IF CalendarDate(y, a, b) THEN [year |-> y, month |-> a, day |-> b]
                      ELSE Nil
            /\ call.yearFirst =>
                  call.result =
                      IF call.sep = "-" /\ CalendarDate(y, a, b)
                      THEN [year |-> y, month |-> a, day |-> b]
                      ELSE Nil

\* "03/04/2024", valid both ways, has been read as 3 April 2024
C14_Witness ==
    /\ call.fn = "parseDate"
    /\ call.dateStr = <<"0","3","/","0","4","/","2","0","2","4">>
    /\ call.result = [year |-> 2024, month |-> 4, day |-> 3]

(***************************************************************************)
(* parseAmount applied to a decimal number written with a sign, a currency *)
(* symbol, thousands commas and spaces                                     *)
(***************************************************************************)
\* integer parts and decimal parts, each with its value in thousandths
AmountIntPool ==
    { [text |-> <<"0">>, value |-> 0],
      [text |-> <<"1","2">>, value |-> 12000],
      [text |-> <<"1","2","3","4">>, value |-> 1234000],
      [text |-> <<"1",",","2","3","4">>, value |-> 1234000],
      [text |-> <<"1",",","2","3","4",",","5","6","7">>, value |-> 1234567000] }

AmountFracPool ==
    { [text |-> << >>, value |-> 0],
      [text |-> <<".","0","0">>, value |-> 0],
      [text |-> <<".","5","6">>, value |-> 560],
      [text |-> <<".","5">>, value |-> 500],
      [text |-> <<".","0","0","5">>, value |-> 5] }

AmountSigns == { << >>, <<"-">> }

AmountSymbols == { << >>, <<"$">>, <<"E","U","R"," ">>, <<"A","$"," ">> }

\* where the sign and the symbol stand
AmountLayouts == { "sign symbol number", "symbol sign number", "sign number symbol" }

AmountString(sign, symbol, int, frac, layout) ==
    CASE layout = "sign symbol number" -> sign \o symbol \o int \o frac
      [] layout = "symbol sign number" -> symbol \o sign \o int \o frac
      [] layout = "sign number symbol" -> sign \o int \o frac \o <<" ">> \o symbol

InitAmount ==
    /\ \E sign \in AmountSigns, symbol \in AmountSymbols, int \in AmountIntPool,
          frac \in AmountFracPool, layout \in AmountLayouts :
           call = [fn |-> "args", negative |-> sign # << >>,
                   magnitude |-> int.value + frac.value,
                   value |-> AmountString(sign, symbol, int.text, frac.text, layout)]
    /\ PureInit

CallParseAmount ==
    /\ call.fn = "args"
    /\ call' = [call EXCEPT !.fn = "parseAmount"] @@ [result |-> parseAmount(call.value)]
    /\ PureFrame

NextAmount == CallParseAmount

SpecAmount == InitAmount /\ [][NextAmount]_vars

MaxHeaders == 3         \* cells of the header row

HeaderPool ==
    { <<"D","a","t","e">>,
      <<" ","T","r","a","n","s","a","c","t","i","o","n"," ","D","a","t","e"," ">>,
      <<"A","m","o","u","n","t">>,
      <<"D","e","s","c","r","i","p","t","i","o","n">>,
      <<"D","e","t","a","i","l","s">>,
      <<"D","e","b","i","t">>,
      <<"C","r","e","d","i","t">>,
      <<"B","a","l","a","n","c","e">>,
      <<"3","1","/","0","1","/","2","0","2","5">>,
      << >> }

InitMapping ==
    /\ \E bankId \in Banks, headers \in SeqsNoRep(HeaderPool, MaxHeaders) :
           call = [fn |-> "args", bankId |-> bankId, headers |-> headers]
    /\ PureInit

CallGetBankColumnMapping ==
    /\ call.fn = "args"
    /\ call' = [call EXCEPT !.fn = "getBankColumnMapping"] @@
               [result |-> getBankColumnMapping(call.bankId, call.headers)]
    /\ PureFrame

NextMapping == CallGetBankColumnMapping

SpecMapping == InitMapping /\ [][NextMapping]_vars

\* the ColumnMapping invariant: date and description are set, and either amount
\* is set or both debit and credit are set
MappingInvariant(m) ==
    /\ ~Falsy(m.dateColumn)
    /\ ~Falsy(m.descriptionColumn)
    /\ ~Falsy(m.amountColumn) \/ (~Falsy(m.debitColumn) /\ ~Falsy(m.creditColumn))

\* C16: every non-null mapping that getBankColumnMapping returns for CBA or
\* STGEORGE satisfies the ColumnMapping invariant.
C16_BankMappingInvariant ==
    (call.fn = "getBankColumnMapping" /\ call.bankId \in {"CBA", "STGEORGE"}
        /\ call.result # Nil)
        => MappingInvariant(call.result)

\* the header names a date, an amount, a description or a balance column
NamesDate(h) == Includes(Normalize(h), StrDate)
NamesAmount(h) == Includes(Normalize(h), StrAmount)
NamesDescription(h) ==
    Includes(Normalize(h), StrDescription) \/ Normalize(h) = <<"d","e","t","a","i","l","s">>
NamesBalance(h) == Includes(Normalize(h), StrBalance)

\* the first header of the row that satisfies Names, NullStr without one
FirstNamed(headers, Names(_)) ==
    LET F == { i \in 1..Len(headers) : Names(headers[i]) }
    IN  IF F = {} THEN NullStr ELSE headers[CHOOSE i \in F : \A j \in F : i <= j]

\* no header contains any of date / amount / description / debit / credit
Unrecognizable(headers) ==
    \A i \in 1..Len(headers) :
        \A kw \in {StrDate, StrAmount, StrDescription, StrDebit, StrCredit} :
            ~Includes(Normalize(headers[i]), kw)

\* C18: for CBA getBankColumnMapping never returns null: it returns the
\* positional mapping when no header contains any of date / amount / description
\* / debit / credit or when date, amount or description cannot be resolved by
\* header name, and otherwise the mapping by header names, debit and credit null.
C18_CbaNeverNull ==
    (call.fn = "getBankColumnMapping" /\ call.bankId = "CBA") =>
        LET date == FirstNamed(call.headers, NamesDate)
            amount == FirstNamed(call.headers, NamesAmount)
            description == FirstNamed(call.headers, NamesDescription)
            balance == FirstNamed(call.headers, NamesBalance)
        IN  /\ call.result # Nil
            /\ call.result =
                  IF Unrecognizable(call.headers)
                       \/ date = NullStr \/ amount = NullStr \/ description = NullStr
                  THEN Mapping(<<"0">>, <<"2">>, <<"1">>, NullStr, NullStr, <<"3">>)
                  ELSE Mapping(date, description, amount, NullStr, NullStr, balance)

\* a recognizable header row without an amount column has given the positional
\* mapping
C18_Witness ==
    /\ call.fn = "getBankColumnMapping"
    /\ call.bankId = "CBA"
    /\ ~Unrecognizable(call.headers)
    /\ FirstNamed(call.headers, NamesAmount) = NullStr
    /\ call.result.dateColumn = <<"0">>

(***************************************************************************)
(* The mapping checks of handleImport (checked under Spec)                 *)
(***************************************************************************)
\* a mapping the import cannot work with
UnusableMapping(m) ==
    \/ m = Nil
    \/ m.dateColumn \in {NullStr, << >>}
    \/ m.descriptionColumn \in {NullStr, << >>}
    \/ /\ m.amountColumn \in {NullStr, << >>}
       /\ \E c \in {m.debitColumn, m.creditColumn} : c \in {NullStr, << >>}

\* C17: when the resolved column mapping is null, lacks date or description,
\* or lacks amount while debit or credit is missing, the step that resumes
\* handleImport ends the import: no parsed row is stored, no duplicate is
\* presented, no timer is armed and the ledger is left as it was.
C17_UnusableMappingAborts ==
    [][(/\ importTask # Nil
        /\ importTask' = Nil
        /\ UnusableMapping(IF importTask.bankId = "OTHER"
                              THEN detectColumns(importTask.headers)
                              ELSE getBankColumnMapping(importTask.bankId,
                                                        importTask.headers)))
          => /\ transactions' = transactions
             /\ importedTransactions' = importedTransactions
             /\ pendingDuplicates' = pendingDuplicates
             /\ currentMerge' = currentMerge
             /\ mergeDialogOpen' = mergeDialogOpen
             /\ step' # "merging"
             /\ timers' = timers
             /\ ~isProcessing']_vars

\* an import that was given up over a ledger with transactions: the wizard
\* still shows the processing step and nothing was parsed
C17_Witness ==
    /\ hist.started
    /\ importTask = Nil
    /\ step = "processing"
    /\ ~isProcessing
    /\ importedTransactions = << >>
    /\ transactions # << >>

(***************************************************************************)
(* detectOrphanTransfers applied to a ledger and two tolerances            *)
(***************************************************************************)
MaxOrphanLedger == 3    \* transactions of the ledger given to detectOrphanTransfers

\* a transfer into acc-A and, in acc-B: its counterpart a day later, one seven
\* days later and 0.009 off, one an hour further, one 0.01 off; then an inverse
\* transfer of acc-A itself and an inverse expense of acc-B
OrphanPool ==
    { Txn(1, 24, StrXfer, 100000, "acc-A", "TRANSFER", Null, Null, FALSE),
      Txn(2, 48, StrXfer, -100000, "acc-B", "TRANSFER", Null, Null, FALSE),
      Txn(3, 192, StrXfer, -100009, "acc-B", "TRANSFER", Null, Null, FALSE),
      Txn(4, 193, StrXfer, -100000, "acc-B", "TRANSFER", Null, Null, TRUE),
      Txn(5, 24, StrXfer, -100010, "acc-B", "TRANSFER", Null, Null, FALSE),
      Txn(6, 24, StrXfer, -100000, "acc-A", "TRANSFER", Null, Null, TRUE),
      Txn(7, 24, StrShop, -100000, "acc-B", "EXPENSE", "cat-food", Null, FALSE) }

OrphanDateTolerances == {1, 7}          \* days; 7 is the default
OrphanAmountTolerances == {10, 11}      \* thousandths; 0.01 is the default

InitOrphan ==
    /\ call \in [fn : {"args"}, transactions : SeqsNoRep(OrphanPool, MaxOrphanLedger),
                  dateToleranceDays : OrphanDateTolerances,
                  amountTolerance : OrphanAmountTolerances]
    /\ PureInit

CallDetectOrphanTransfers ==
    /\ call.fn = "args"
    /\ call' = [call EXCEPT !.fn = "detectOrphanTransfers"] @@
               [result |-> detectOrphanTransfers(call.transactions,
                                                 call.dateToleranceDays,
                                                 call.amountTolerance)]
    /\ PureFrame

NextOrphan == CallDetectOrphanTransfers

SpecOrphan == InitOrphan /\ [][NextOrphan]_vars

\* O is a counterpart of the transfer T
Counterpart(T, O, days, tolerance) ==
    /\ O.type = "TRANSFER"
    /\ O.accountId # T.accountId
    /\ (O.amount + T.amount) \in (1 - tolerance)..(tolerance - 1)
    /\ (O.date - T.date) \in (0 - days * 24)..(days * 24)

\* the ledger without its k-th transaction
WithoutAt(txns, k) == SubSeq(txns, 1, k - 1) \o SubSeq(txns, k + 1, Len(txns))

Reported(ids, t) == \E k \in DOMAIN ids : ids[k] = t.id

OrphansExact ==
    call.fn = "detectOrphanTransfers" =>
        LET txns == call.transactions
            days == call.dateToleranceDays
            tolerance == call.amountTolerance
            Transfers == { a \in DOMAIN txns : txns[a].type = "TRANSFER" }
            Lonely == { a \in Transfers :
                          ~\E b \in DOMAIN txns :
                              Counterpart(txns[a], txns[b], days, tolerance) }
        IN  /\ { call.result[k] : k \in DOMAIN call.result } = { txns[a].id : a \in Lonely }
            /\ Len(call.result) = Cardinality(Lonely)
            /\ \A a, b \in Transfers :
                  Counterpart(txns[a], txns[b], days, tolerance) =>
                      /\ Counterpart(txns[b], txns[a], days, tolerance)
                      /\ ~Reported(call.result, txns[a])
                      /\ ~Reported(call.result, txns[b])
                      /\ (\A c \in DOMAIN txns \ {b} :
                              ~Counterpart(txns[a], txns[c], days, tolerance))
                          => Reported(detectOrphanTransfers(WithoutAt(txns, b), days,
                                                            tolerance), txns[a])

\* C19: detectOrphanTransfers reports exactly the ids of the transfers that have
\* no counterpart (a transfer of another account whose amount is the inverse
\* within the amount tolerance and whose date is within the date tolerance); two
\* transfers that are counterparts of each other are both left out, and the one
\* is reported once the other is taken out of the ledger and it has no other
\* counterpart; the call leaves the ledger it was given as it is.
C19_OrphansExactAndSymmetric ==
    /\ []OrphansExact
    /\ [][call'.fn = "detectOrphanTransfers" =>
              /\ call'.transactions = call.transactions
              /\ transactions' = transactions]_vars

\* the transfer into acc-A with its counterpart and a third transfer a week
\* later, under a tolerance of one day: only the third is reported
C19_Witness ==
    /\ call.fn = "detectOrphanTransfers"
    /\ call.dateToleranceDays = 1
    /\ Len(call.transactions) = 3
    /\ \E a, b \in DOMAIN call.transactions :
          /\ call.transactions[a].amount = 100000
          /\ call.transactions[b].amount = -100000
          /\ call.transactions[b].date = 48
          /\ call.transactions[b].accountId = "acc-B"
    /\ \E c \in DOMAIN call.transactions :
          /\ call.transactions[c].date = 192
          /\ call.result = <<call.transactions[c].id>>

(***************************************************************************)
(* The Categories page deleting categories of a ledger with rules          *)
(***************************************************************************)
InitCategory ==
    /\ transactions \in SeqsNoRep(LedgerPool, MaxLedger)
    /\ rules \in SeqsNoRep(RulePool, MaxRules)
    /\ categories = CategoryIds
    /\ wizardOpen = FALSE
    /\ WizardIdle
    /\ importTask = Nil
    /\ timers = << >>
    /\ clock = 1
    /\ call = NoCall
    /\ hist = NoHist

\* handleDeleteCategory; `confirmed` is the answer to the confirm dialog, asked
\* when a rule or a transaction refers to the category
handleDeleteCategory(categoryId, confirmed) ==
    /\ LET category == \E c \in DOMAIN categories : categories[c] = categoryId
           ruleCount == Len(SelectSeq(rules, LAMBDA r : r.categoryId = categoryId))
           transactionCount ==
               Len(SelectSeq(transactions, LAMBDA t : t.categoryId = categoryId))
           next == DeleteCategory([transactions |-> transactions,
                                   categories |-> categories, rules |-> rules],
                                  categoryId)
       IN  IF ~category \/ ((ruleCount > 0 \/ transactionCount > 0) /\ ~confirmed)
           THEN UNCHANGED <<transactions, categories, rules, call>>
           ELSE /\ transactions' = next.transactions
                /\ categories' = next.categories
                /\ rules' = next.rules
                /\ call' = [fn |-> "DELETE_CATEGORY", id |-> categoryId]
    /\ UNCHANGED <<wizardOpen, file, selectedAccountId, isProcessing, step,
                   mergeDialogOpen, currentMerge, pendingDuplicates, processedIndices,
                   importedTransactions, currentAccountId, importTask, timers, clock,
                   hist>>

\* the ids the page may ask to delete
DeletableIds == { CategoryIds[c] : c \in DOMAIN CategoryIds }

NextCategory ==
    \E categoryId \in DeletableIds, confirmed \in BOOLEAN :
        handleDeleteCategory(categoryId, confirmed)

SpecCategory == InitCategory /\ [][NextCategory]_vars

\* rules and categories after the deletion of the category id
CascadeOnRules(id) ==
    /\ rules' = SelectSeq(rules, LAMBDA r : r.categoryId # id)
    /\ categories' = SelectSeq(categories, LAMBDA c : c # id)

\* transactions after the deletion of the category id
CascadeOnTransactions(id) ==
    /\ Len(transactions') = Len(transactions)
    /\ \A k \in DOMAIN transactions :
          transactions'[k] = IF transactions[k].categoryId = id
                             THEN [transactions[k] EXCEPT !.categoryId = Null]
                             ELSE transactions[k]

\* C20: a step that deletes the category id leaves every transaction that
\* referred to it with categoryId null and removes the rules of that category,
\* so that no transaction and no rule refers to it any more; the other
\* transactions, rules and categories are as before.
C20_DeleteCategoryCascades ==
    [][\A id \in DeletableIds, confirmed \in BOOLEAN :
          (handleDeleteCategory(id, confirmed) /\ categories' # categories)
              => /\ CascadeOnTransactions(id)
                 /\ CascadeOnRules(id)
                 /\ \A k \in DOMAIN transactions' : transactions'[k].categoryId # id
                 /\ \A k \in DOMAIN rules' : rules'[k].categoryId # id]_vars

(***************************************************************************)
(* The Categories page reordering the rules                                *)
(***************************************************************************)
MaxRuleIds == 2         \* ids of a REORDER_RULES dispatched directly

ReorderRulePool == { r \in MatchRulePool : r.id <= 3 }

\* the ids of ReorderRulePool and one no rule has
ReorderIds == {1, 2, 3, 9}

InitRules ==
    /\ rules \in SeqsNoRep(ReorderRulePool, MaxMatchRules)
    /\ transactions = << >>
    /\ categories = CategoryIds
    /\ wizardOpen = FALSE
    /\ WizardIdle
    /\ importTask = Nil
    /\ timers = << >>
    /\ clock = 1
    /\ call = NoCall
    /\ hist = NoHist

RulesFrame ==
    UNCHANGED <<transactions, categories, wizardOpen, file, selectedAccountId,
                isProcessing, step, mergeDialogOpen, currentMerge, pendingDuplicates,
                processedIndices, importedTransactions, currentAccountId, importTask,
                timers, clock, hist>>

DispatchReorderRules(ruleIds) ==
    /\ rules' = ReorderRules(rules, ruleIds)
    /\ call' = [fn |-> "REORDER_RULES", ruleIds |-> ruleIds]
    /\ RulesFrame

\* handleMoveRule; findIndex gives the first rule with the id
handleMoveRule(ruleId, direction) ==
    /\ LET found == { k \in DOMAIN rules : rules[k].id = ruleId }
           currentIndex == CHOOSE k \in found : \A j \in found : k <= j
           newIndex == IF direction = "up" THEN currentIndex - 1 ELSE currentIndex + 1
           newRules == [k \in DOMAIN rules |->
                           IF k = currentIndex THEN rules[newIndex]
                           ELSE IF k = newIndex THEN rules[currentIndex]
                           ELSE rules[k]]
           ruleIds == [k \in DOMAIN rules |-> newRules[k].id]
       IN  IF found = {} \/ newIndex < 1 \/ newIndex > Len(rules)
           THEN UNCHANGED <<rules, call>>
           ELSE /\ rules' = ReorderRules(rules, ruleIds)
                /\ call' = [fn |-> "REORDER_RULES", ruleIds |-> ruleIds]
    /\ RulesFrame

NextRules ==
    \/ \E ruleIds \in SeqsUpTo(ReorderIds, MaxRuleIds) : DispatchReorderRules(ruleIds)
    \/ \E ruleId \in ReorderIds, direction \in {"up", "down"} :
          handleMoveRule(ruleId, direction)

SpecRules == InitRules /\ [][NextRules]_vars

\* the number of times the rule r occurs in rs
Occurrences(rs, r) == Cardinality({ k \in DOMAIN rs : rs[k] = r })

\* after is a permutation of before
PermutationOf(before, after) ==
    /\ Len(after) = Len(before)
    /\ \A k \in DOMAIN before :
          Occurrences(after, before[k]) = Occurrences(before, before[k])

\* after starts with the rules of before that ruleIds names, in the order of
\* ruleIds, and goes on with the other rules of before in their order
NamedFirst(before, after, ruleIds) ==
    LET Known(id) == \E k \in DOMAIN before : before[k].id = id
        known == SelectSeq(ruleIds, Known)
        NotNamed(r) == \A k \in DOMAIN ruleIds : ruleIds[k] # r.id
        rest == SelectSeq(before, NotNamed)
    IN  /\ Len(after) = Len(known) + Len(rest)
        /\ \A k \in DOMAIN known : after[k].id = known[k]
        /\ \A k \in DOMAIN rest : after[Len(known) + k] = rest[k]

KeyTransactions == "\"transactions\""
KeyRules == "\"rules\""
KeyCategories == "\"categories\""
JsonStrings == { KeyTransactions, KeyRules, KeyCategories }
JsonPunctuation == { "{", "}", "[", "]", ":", "," }

TxnTokens == <<"t1", "t2", "t3">>
RuleTokens == <<"r1", "r2">>

\* JSON.stringify of an array whose elements are given by their tokens
RECURSIVE StringifyItems(_)
StringifyItems(toks) ==
    IF Len(toks) = 0 THEN << >>
    ELSE IF Len(toks) = 1 THEN toks
    ELSE <<Head(toks), ",">> \o StringifyItems(Tail(toks))

StringifyArray(toks) == <<"[">> \o StringifyItems(toks) \o <<"]">>

\* exportState: JSON.stringify(state)
Stringify(state) ==
    <<"{", KeyTransactions, ":">>
        \o StringifyArray([k \in DOMAIN state.transactions |->
                               TxnTokens[state.transactions[k].id[2]]])
        \o <<",", KeyRules, ":">>
        \o StringifyArray([k \in DOMAIN state.rules |-> RuleTokens[state.rules[k].id]])
        \o <<",", KeyCategories, ":">>
        \o StringifyArray(state.categories)
        \o <<"}">>

\* a parsed value: a literal (tok), an array (items) or an object (keys, items)
JsonValue(kind, tok, keys, items) ==
    [kind |-> kind, tok |-> tok, keys |-> keys, items |-> items]

JsonFail == [ok |-> FALSE, next |-> 0, val |-> JsonValue("none", "", << >>, << >>)]

\* JSON.parse reading a value, the elements of an array and the members of an
\* object from the token at i on; a SyntaxError is ok = FALSE
RECURSIVE ParseValue(_, _)
RECURSIVE ParseItems(_, _, _)
RECURSIVE ParseMembers(_, _, _, _)
ParseValue(toks, i) ==
    IF i > Len(toks) THEN JsonFail
    ELSE IF toks[i] = "["
    THEN IF i + 1 <= Len(toks) /\ toks[i + 1] = "]"
         THEN [ok |-> TRUE, next |-> i + 2, val |-> JsonValue("array", "", << >>, << >>)]
         ELSE ParseItems(toks, i + 1, << >>)
    ELSE IF toks[i] = "{"
    THEN IF i + 1 <= Len(toks) /\ toks[i + 1] = "}"
         THEN [ok |-> TRUE, next |-> i + 2, val |-> JsonValue("object", "", << >>, << >>)]
         ELSE ParseMembers(toks, i + 1, << >>, << >>)
    ELSE IF toks[i] \in JsonPunctuation THEN JsonFail
    ELSE [ok |-> TRUE, next |-> i + 1, val |-> JsonValue("literal", toks[i], << >>, << >>)]

\* elements read without asking for the commas between them
RECURSIVE ParseItemsNoComma(_, _, _)
ParseItemsNoComma(toks, i, items) ==
    LET v == ParseValue(toks, i)
    IN  IF ~v.ok \/ v.next > Len(toks) THEN JsonFail
        ELSE IF toks[v.next] = ","
        THEN ParseItemsNoComma(toks, v.next + 1, Append(items, v.val))
        ELSE IF toks[v.next] = "]"
        THEN [ok |-> TRUE, next |-> v.next + 1,
              val |-> JsonValue("array", "", << >>, Append(items, v.val))]
        ELSE ParseItemsNoComma(toks, v.next, Append(items, v.val))

ParseItems(toks, i, items) ==
    LET v == ParseValue(toks, i)
    IN  IF ~v.ok \/ v.next > Len(toks) THEN JsonFail
        ELSE IF toks[v.next] = "," THEN ParseItems(toks, v.next + 1, Append(items, v.val))
        ELSE IF toks[v.next] = "]"
        THEN [ok |-> TRUE, next |-> v.next + 1,
              val |-> JsonValue("array", "", << >>, Append(items, v.val))]
        ELSE JsonFail

ParseMembers(toks, i, keys, items) ==
    IF i + 1 > Len(toks) \/ toks[i] \notin JsonStrings \/ toks[i + 1] # ":" THEN JsonFail
    ELSE LET v == ParseValue(toks, i + 2)
         IN  IF ~v.ok \/ v.next > Len(toks) THEN JsonFail
             ELSE IF toks[v.next] = ","
             THEN ParseMembers(toks, v.next + 1, Append(keys, toks[i]), Append(items, v.val))
             ELSE IF toks[v.next] = "}"
             THEN [ok |-> TRUE, next |-> v.next + 1,
                   val |-> JsonValue("object", "", Append(keys, toks[i]),
                                     Append(items, v.val))]
             ELSE JsonFail

JsonParse(text) ==
    LET v == ParseValue(text, 1)
    IN  IF v.ok /\ v.next = Len(text) + 1 THEN v ELSE JsonFail

\* parsed[key]; a repeated member name is given by its last occurrence
Member(parsed, key) ==
    parsed.items[CHOOSE k \in DOMAIN parsed.keys :
                     parsed.keys[k] = key
                         /\ \A j \in DOMAIN parsed.keys : parsed.keys[j] = key => j <= k]

\* the AppState that `parsed as AppState` is read as
AsAppState(parsed) ==
    LET transactionItems == Member(parsed, KeyTransactions).items
        ruleItems == Member(parsed, KeyRules).items
        categoryItems == Member(parsed, KeyCategories).items
    IN  [transactions |->
             [k \in DOMAIN transactionItems |->
                 CHOOSE t \in LedgerPool : TxnTokens[t.id[2]] = transactionItems[k].tok],
         rules |->
             [k \in DOMAIN ruleItems |->
                 CHOOSE r \in RulePool : RuleTokens[r.id] = ruleItems[k].tok],
         categories |-> [k \in DOMAIN categoryItems |-> categoryItems[k].tok]]

(***************************************************************************)
(* The Settings page importing a ledger document                           *)
(***************************************************************************)
\* ledgers whose export the user may hold
ExportedStates ==
    [transactions : SeqsNoRep(LedgerPool, MaxLedger), rules : SeqsNoRep(RulePool, MaxRules),
     categories : {CategoryIds}]

\* the text without its k-th token
WithoutToken(text, k) == SubSeq(text, 1, k - 1) \o SubSeq(text, k + 1, Len(text))

\* exports, exports cut short and exports that lost a token
Documents ==
    UNION { { Stringify(st) }
                \cup { SubSeq(Stringify(st), 1, n) : n \in 0..Len(Stringify(st)) }
                \cup { WithoutToken(Stringify(st), k) : k \in 1..Len(Stringify(st)) }
            : st \in ExportedStates }

InitJson ==
    /\ transactions \in SeqsNoRep(LedgerPool, MaxLedger)
    /\ rules = << >>
    /\ categories = CategoryIds
    /\ wizardOpen = FALSE
    /\ WizardIdle
    /\ importTask = Nil
    /\ timers = << >>
    /\ clock = 1
    /\ call = NoCall
    /\ hist = NoHist

JsonFrame ==
    UNCHANGED <<wizardOpen, file, selectedAccountId, isProcessing, step,
                mergeDialogOpen, currentMerge, pendingDuplicates, processedIndices,
                importedTransactions, currentAccountId, importTask, timers, clock,
                hist>>

\* handleImportJSON up to the await of file.text() in importState; a behaviour
\* follows one document
handleImportJSONStart(text) ==
    /\ call.fn = "none"
    /\ call' = [fn |-> "importState", text |-> text]
    /\ UNCHANGED <<transactions, rules, categories>>
    /\ JsonFrame

\* importState after file.text(): JSON.parse, then the dispatch of IMPORT_STATE;
\* a SyntaxError is caught by handleImportJSON, which alerts
handleImportJSONResume ==
    /\ call.fn = "importState"
    /\ LET parsed == JsonParse(call.text)
       IN  IF ~parsed.ok
           THEN /\ call' = [fn |-> "alert", text |-> call.text]
                /\ UNCHANGED <<transactions, rules, categories>>
           ELSE LET state == AsAppState(parsed.val)
                IN  /\ transactions' = state.transactions
                    /\ rules' = state.rules
                    /\ categories' = state.categories
                    /\ call' = [fn |-> "IMPORT_STATE", text |-> call.text]
    /\ JsonFrame

NextJson ==
    \/ \E text \in Documents : handleImportJSONStart(text)
    \/ handleImportJSONResume

SpecJson == InitJson /\ [][NextJson]_vars

\* the text is the export of some ledger
IsExport(text) == \E st \in ExportedStates : Stringify(st) = text

\* C22: when the document given to the full-ledger import is not parseable
\* JSON, the import ends in an error and transactions, rules and categories
\* are left as they were; IMPORT_STATE is dispatched only for a document that
\* parsed, and then the ledger is the one the document holds.
C22_UnparseableLeavesLedger ==
    [][(call.fn = "importState" /\ call'.fn # "importState")
          => IF IsExport(call.text)
             THEN /\ call'.fn = "IMPORT_STATE"
                  /\ Stringify([transactions |-> transactions', rules |-> rules',
                                categories |-> categories']) = call.text
             ELSE /\ call'.fn = "alert"
                  /\ transactions' = transactions
                  /\ rules' = rules
                  /\ categories' = categories]_vars

\* the import of an export that lost its closing brace has failed over a ledger
\* with transactions
C22_Witness ==
    /\ call.fn = "alert"
    /\ Len(call.text) > 0
    /\ call.text \o <<"}">> = Stringify([transactions |-> << >>, rules |-> << >>,
                                          categories |-> CategoryIds])
    /\ transactions # << >>

(***************************************************************************)
(* ImportWizard: the account of an import and the bank it selects          *)
(***************************************************************************)
Account(id, bankId) == [id |-> id, name |-> <<"A">>, bankId |-> bankId]

\* handleImport up to the resolution of the column mapping, on the accounts of
\* the render the click happened in: whether the import goes on, the accounts
\* once a dispatched ADD_ACCOUNT has been reduced, the account imported into,
\* the bank found for it and the mapping resolved for that bank.  "acc-new" is
\* the id made of Date.now().
ImportAccount(accounts, selected, newAccountName, newAccountBank, headers) ==
    LET creates == selected = "new" /\ Trim(newAccountName) # << >>
        newAccount == [id |-> "acc-new", name |-> Trim(newAccountName),
                       bankId |-> newAccountBank]
        accountId == IF creates THEN newAccount.id ELSE selected
        found == { k \in DOMAIN accounts : accounts[k].id = accountId }
        selectedAccount == accounts[CHOOSE k \in found : \A j \in found : k <= j]
        bankId == IF found = {} THEN "OTHER"
                  ELSE IF selectedAccount.bankId = Null THEN "OTHER"
                  ELSE selectedAccount.bankId
    IN  IF ~creates /\ (selected = "" \/ selected = "new")
        THEN [proceeds |-> FALSE, accounts |-> accounts, accountId |-> selected,
              bankId |-> "OTHER", columnMapping |-> Nil]
        ELSE [proceeds |-> TRUE,
              accounts |-> IF creates THEN Append(accounts, newAccount) ELSE accounts,
              accountId |-> accountId,
              bankId |-> bankId,
              columnMapping |-> ResolveColumnMapping(bankId, headers)]

(***************************************************************************)
(* handleImport applied to the accounts of the ledger, the account chosen  *)
(* in the wizard and the header line of the file                           *)
(***************************************************************************)
MaxAccounts == 2        \* accounts of the ledger

\* accounts of the three banks and one saved without a bank
AccountPool ==
    { Account("acc-A", "CBA"), Account("acc-B", "STGEORGE"),
      Account("acc-C", "OTHER"), Account("acc-D", Null) }

AccountNames == { << >>, <<" ">>, <<"S","a","v","e">> }

InitAccount ==
    /\ call \in { c \in [fn : {"args"}, accounts : SeqsNoRep(AccountPool, MaxAccounts),
                         selectedAccountId : {"", "new"} \cup { a.id : a \in AccountPool },
                         newAccountName : AccountNames, newAccountBank : Banks,
                         headers : WizardHeaderRows] :
                     c.selectedAccountId \in
                         {"", "new"} \cup { c.accounts[k].id : k \in DOMAIN c.accounts } }
    /\ PureInit

CallHandleImport ==
    /\ call.fn = "args"
    /\ call' = [call EXCEPT !.fn = "handleImport"] @@
               [result |-> ImportAccount(call.accounts, call.selectedAccountId,
                                         call.newAccountName, call.newAccountBank,
                                         call.headers)]
    /\ PureFrame

NextAccount == CallHandleImport

SpecAccount == InitAccount /\ [][NextAccount]_vars

\* the bank of the account with the given id, OTHER for an account without one
BankOfAccount(accounts, id) ==
    LET account == CHOOSE a \in { accounts[k] : k \in DOMAIN accounts } : a.id = id
    IN  IF account.bankId \in Banks THEN account.bankId ELSE "OTHER"

\* C23: an import that goes on applies the column detection of the bank of the
\* account the rows are imported into (the CBA layout, the St. George layout,
\* keyword detection for OTHER), also when that account is created by
\* ADD_ACCOUNT in the same step.
C23_StrategyOfAccountBank ==
    (call.fn = "handleImport" /\ call.result.proceeds) =>
        LET bank == BankOfAccount(call.result.accounts, call.result.accountId)
        IN  /\ call.result.bankId = bank
            /\ call.result.columnMapping =
                   CASE bank = "CBA" -> CbaColumnMapping(call.headers)
                     [] bank = "STGEORGE" -> StGeorgeColumnMapping(call.headers)
                     [] OTHER -> detectColumns(call.headers)

(***************************************************************************)
(* The import wizard over a ledger of imported transactions whose types    *)
(* are the inferred ones                                                   *)
(***************************************************************************)
InferredLedgerPool ==
    { Txn(1, 24, StrShop, -45600, "acc-A", "EXPENSE", Null, Null, FALSE),
      Txn(2, 96, StrPay, 10000, "acc-B", "INCOME", Null, Null, FALSE) }

\* rows parseCSV may emit: the first has the amount of the first transaction
\* of the pool, a date a day later and a description that names a transfer
InferredRowPool ==
    { Row(48, StrXfer, -45600),
      Row(96, StrPay, 10000) }

InitInferred ==
    /\ transactions \in SeqsNoRep(InferredLedgerPool, MaxLedger)
    /\ rules = << >>
    /\ categories = CategoryIds
    /\ wizardOpen = FALSE
    /\ WizardIdle
    /\ importTask = Nil
    /\ timers = << >>
    /\ clock = 1
    /\ call = NoCall
    /\ hist = NoHist

NextInferred ==
    \/ OpenWizard
    \/ CloseWizard
    \/ \E isCsv \in BOOLEAN : handleFileSelect(isCsv)
    \/ \E a \in AccountIds : setSelectedAccountId(a)
    \/ \E bankId \in Banks, headers \in WizardHeaderRows : handleImportStart(bankId, headers)
    \/ \E imported \in SeqsUpTo(InferredRowPool, MaxRows) : handleImportResume(imported)
    \/ handleMerge
    \/ handleKeepExisting("button")
    \/ handleAddAsNew
    \/ CloseMergeDialog
    \/ TimerFires

SpecInferred == InitInferred /\ [][NextInferred]_vars

\* C24: after any sequence of imports and merge decisions, every transaction of
\* the ledger that an import created has the type that inferTransactionType
\* gives for its current amount and description (the reducer of the wizard has
\* no override of the type).
C24_TypeIsInferred ==
    \A k \in DOMAIN transactions :
        ~transactions[k].isManualEntry
            => transactions[k].type =
                   inferTransactionType(transactions[k].amount, transactions[k].description)

(***************************************************************************)
(* The wizard after its reset (checked under Spec)                         *)
(***************************************************************************)
\* the import of the behaviour has begun and the wizard has been reset since:
\* only resetWizard takes the step back to the upload
WizardWasReset == hist.started /\ step \in {"upload", "account"}

\* C25: once the wizard has been reset, by the completion of the import or by
\* its being closed, no step presents a merge dialog, changes the ledger or
\* runs processRemainingTransactions for that import, whatever the order of
\* decisions, closing and delayed presentations.
C25_NothingAfterReset ==
    [][WizardWasReset
          => /\ mergeDialogOpen' => mergeDialogOpen
             /\ transactions' = transactions
             /\ hist'.done = hist.done]_vars

\* the wizard was closed before the import was through: it has been reset and
\* processRemainingTransactions has not run
ClosedBeforeCompletion == WizardWasReset /\ hist.done = Nil

\* C26: when the wizard is closed before the merge-resolution flow completes,
\* the transactions of the ledger are those from before the import started: no
\* Merge decision stays applied while the new rows of the import are dropped.
C26_ImportIsAtomic ==
    ClosedBeforeCompletion => transactions = hist.before

(***************************************************************************)
(* Pairs of one result of findPotentialDuplicates (checked under SpecDup)  *)
(***************************************************************************)
\* C27: within one result of findPotentialDuplicates each transaction of the
\* ledger is paired with at most one new transaction, so that one import holds
\* at most one Merge for it.
C27_ExistingPairedOnce ==
    call.fn = "findPotentialDuplicates" =>
        \A a, b \in DOMAIN call.result :
            a # b => call.result[a].existingTransaction.id
                         # call.result[b].existingTransaction.id

(***************************************************************************)
(* Columns of one detectColumns result (checked under SpecMapping)         *)
(***************************************************************************)
\* the two columns are not one and the same header
DistinctColumns(a, b) == (a # NullStr /\ b # NullStr) => a # b

\* C28: detectColumns never gives one header to two fields: the amount column
\* is not the date column, and the credit column is none of the date, the
\* description and the balance column.
C28_DetectedColumnsDistinct ==
    (call.fn = "getBankColumnMapping" /\ call.bankId = "OTHER") =>
        LET m == call.result
        IN  /\ m = detectColumns(call.headers)
            /\ DistinctColumns(m.amountColumn, m.dateColumn)
            /\ DistinctColumns(m.creditColumn, m.dateColumn)
            /\ DistinctColumns(m.creditColumn, m.descriptionColumn)
            /\ DistinctColumns(m.creditColumn, m.balanceColumn)

(***************************************************************************)
(* Transactions.tsx: the Transactions page.  A date string is the instant  *)
(* it denotes, in hours since the epoch (UTC); the time zone of the        *)
(* browser is its offset, in hours east of UTC.                            *)
(***************************************************************************)
MaxPageOps == 3         \* dispatches of the Transactions page in one run
MaxDay == 2             \* calendar days the user may enter

TimeZoneOffsets == -12..14
PageDays == 1..MaxDay

\* iso.split('T')[0]: the calendar day, in UTC, of an ISO string
SplitT0(iso) == iso \div HoursPerDay

\* new Date(dateStr + 'T00:00:00').toISOString(), and toISOString() of the
\* Date that date-fns parse builds: midnight of the day in local time
LocalMidnight(dateStr, offset) == dateStr * HoursPerDay - offset

\* UPDATE_TRANSACTION
UpdateTransaction(txns, id, updates) ==
    [k \in 1..Len(txns) |-> IF txns[k].id = id THEN updates @@ txns[k] ELSE txns[k]]

\* the form handleEdit fills in for a transaction
EditFormData(transaction) ==
    [date |-> SplitT0(transaction.date),
     description |-> transaction.description,
     amount |-> transaction.amount,
     accountId |-> transaction.accountId,
     categoryId |-> transaction.categoryId]

\* imported transactions of the ledger, for a browser at the offset
PageLedgerPool(offset) ==
    { Txn(1, LocalMidnight(1, offset), StrShop, -45600, "acc-A", "EXPENSE",
          "cat-food", "note", FALSE),
      Txn(2, LocalMidnight(2, offset), StrPay, 10000, "acc-A", "INCOME",
          Null, Null, FALSE) }

PageRowPool(offset) ==
    { Row(LocalMidnight(day, offset), StrXfer, -45595) : day \in PageDays }

PageFrame ==
    UNCHANGED <<rules, categories, wizardOpen, file, selectedAccountId,
                isProcessing, step, mergeDialogOpen, currentMerge, pendingDuplicates,
                processedIndices, importedTransactions, currentAccountId,
                importTask, timers, clock, hist>>

InitPage ==
    /\ \E offset \in TimeZoneOffsets :
          /\ transactions \in SeqsNoRep(PageLedgerPool(offset), 1)
          /\ call = [fn |-> "none", offset |-> offset, ops |-> 0,
                     selectedTransaction |-> Nil, editFormData |-> Nil,
                     isEditDialogOpen |-> FALSE]
    /\ rules = << >>
    /\ categories = CategoryIds
    /\ wizardOpen = FALSE
    /\ WizardIdle
    /\ importTask = Nil
    /\ timers = << >>
    /\ clock = 1
    /\ hist = NoHist

\* a dispatch of the page outside the edit dialog
PageDispatch(fn, txns) ==
    /\ ~call.isEditDialogOpen
    /\ call.ops < MaxPageOps
    /\ transactions' = txns
    /\ call' = [call EXCEPT !.fn = fn, !.ops = @ + 1]
    /\ PageFrame

handleEdit(k) ==
    /\ ~call.isEditDialogOpen
    /\ call.ops < MaxPageOps
    /\ k \in DOMAIN transactions
    /\ call' = [call EXCEPT !.fn = "handleEdit",
                            !.selectedTransaction = transactions[k],
                            !.editFormData = EditFormData(transactions[k]),
                            !.isEditDialogOpen = TRUE]
    /\ UNCHANGED transactions
    /\ PageFrame

\* the user retypes the description in the edit dialog
setEditFormDataDescription(description) ==
    /\ call.isEditDialogOpen
    /\ call.editFormData.description # description
    /\ call' = [call EXCEPT !.fn = "setEditFormData",
                            !.editFormData.description = description]
    /\ UNCHANGED transactions
    /\ PageFrame

saveEdit ==
    /\ call.isEditDialogOpen
    /\ call.selectedTransaction # Nil
    /\ LET dateValue == call.editFormData.date
           updates == [call.editFormData EXCEPT
                          !.date = LocalMidnight(dateValue, call.offset)]
       IN  transactions' = UpdateTransaction(transactions,
                               call.selectedTransaction.id, updates)
    /\ call' = [call EXCEPT !.fn = "saveEdit", !.ops = @ + 1,
                            !.selectedTransaction = Nil, !.editFormData = Nil,
                            !.isEditDialogOpen = FALSE]
    /\ PageFrame

\* saveNewTransaction on the form of the Add Transaction dialog; the empty
\* description and the empty account id are falsy
saveNewTransaction(dateStr, description, amount, accountId) ==
    /\ description # << >>
    /\ accountId # ""
    /\ LET transaction == [id |-> <<-1, call.ops>>,
                           date |-> LocalMidnight(dateStr, call.offset),
                           description |-> description,
                           amount |-> amount,
                           currency |-> "USD",
                           accountId |-> accountId,
                           categoryId |-> Null,
                           isManualEntry |-> TRUE]
       IN  PageDispatch("saveNewTransaction",
                        AddTransactions(transactions, <<transaction>>))

confirmDelete(k) ==
    /\ k \in DOMAIN transactions
    /\ PageDispatch("confirmDelete", DeleteTransaction(transactions, transactions[k].id))

\* the ADD_TRANSACTIONS of an import of the rows into acc-A
PageImport(rows) ==
    PageDispatch("import",
        AddTransactions(transactions,
            BuildTransactions(rows, "acc-A", {}, rules, call.ops + 1, 0)))

\* the MERGE_TRANSACTION of a Merge decision on the k-th transaction
PageMerge(k, row) ==
    /\ k \in DOMAIN transactions
    /\ PageDispatch("merge",
           MergeTransaction(transactions, transactions[k].id,
               [date |-> row.date, description |-> row.description]))

NextPage ==
    \/ \E k \in 1..(MaxPageOps + 1) : handleEdit(k)
    \/ \E description \in {StrShop, StrPay} : setEditFormDataDescription(description)
    \/ saveEdit
    \/ \E dateStr \in PageDays, description \in {<< >>, StrShop},
          accountId \in {"", "acc-A"} :
           saveNewTransaction(dateStr, description, 0, accountId)
    \/ \E k \in 1..(MaxPageOps + 1) : confirmDelete(k)
    \/ \E rows \in SeqsNoRep(PageRowPool(call.offset), 1) : PageImport(rows)
    \/ \E k \in 1..(MaxPageOps + 1), row \in PageRowPool(call.offset) : PageMerge(k, row)

SpecPage == InitPage /\ [][NextPage]_vars

\* the edit dialog holds the form as handleEdit filled it in
FormUntouched ==
    /\ call.isEditDialogOpen
    /\ call.editFormData = EditFormData(call.selectedTransaction)

\* C29: saving the edit dialog with no field changed leaves the ledger as it
\* was, the date of the transaction included, at every time-zone offset.
C29_SaveWithoutChangeIsNoOp ==
    [][(FormUntouched /\ call'.fn = "saveEdit") => transactions' = transactions]_vars

\* C30: every transaction of the ledger has a type, one of INCOME, EXPENSE
\* and TRANSFER, whatever the page has dispatched.
C30_EveryTransactionTyped ==
    \A k \in DOMAIN transactions :
        /\ "type" \in DOMAIN transactions[k]
        /\ transactions[k].type \in TransactionTypes

====
